---------------------------- MODULE Spec2Model ----------------------------
(***************************************************************************)
(* A model of specmint: the deterministic value generator                  *)
(* (pkg/generator/deterministic.go), the schema parser                     *)
(* (pkg/schema/parser.go), the cross-field validator and patch engine      *)
(* (pkg/validator) and the worker pipeline of Generator.Generate           *)
(* (pkg/generator/generator.go).                                           *)
(*                                                                         *)
(* Conventions.  A Go string is a sequence of one-character strings.  An   *)
(* optional field (a nil pointer, an absent JSON key) is <<>> and a set    *)
(* one is <<v>>.  A Go value of dynamic type (interface{}) is a record     *)
(* [t |-> tag, v |-> payload].  A float64 is an integer count of           *)
(* 1/FloatScale units.                                                     *)
(***************************************************************************)
EXTENDS Integers, Sequences, FiniteSets, TLC

VARIABLES
    \* ---- value generator harness (SpecGen)
    gRaw,        \* the raw schema document handed to the parser
    gSeed,       \* the base seed of the DeterministicGenerator
    gIndex,      \* the record index
    gOut,        \* results of the independent GenerateValue calls so far
    \* ---- validator harness (SpecVal)
    vRules,      \* Validator.rules
    vData,       \* the record handed to generateRecord's validation step
    vRec,        \* the generatedRecord built by generateRecord (or <<>>)
    vPc,         \* position of the validation step
    vAfter,      \* result of a ValidateRecord re-run on the record (or <<>>)
    \* ---- parser harness (SpecParse)
    pRaw,        \* raw schema document
    pNode,       \* result of GetRootNode (or <<>>)
    pRules,      \* Validator.rules as built by validator.New (or <<>>)
    pData,       \* the base record generateRecord generated (or <<>>)
    pRec,        \* the generatedRecord after validation and patching (or <<>>)
    \* ---- Generate pipeline (Spec)
    schemaId,    \* which schema document the run was configured with
    cfgSeed,     \* config.Generation.Seed
    workers,     \* config.Generation.Workers
    count,       \* config.Generation.Count
    pipeRules,   \* Validator.rules of the run
    cancelled,   \* ctx is done
    gpc,         \* position of Generate itself
    sent,        \* next index the sender goroutine will send
    senderDone,  \* the sender closed recordChan
    recordChan,  \* buffered channel of record indices
    resultChan,  \* buffered channel of generatedRecord
    resultClosed,\* Generate closed resultChan
    wpc,         \* per worker: position in generationWorker
    wIdx,        \* per worker: the record index it holds
    wRec,        \* per worker: the generatedRecord it holds
    records,     \* the collector's records slice
    result,      \* GenerationResult counters
    collectorDone,
    written,     \* what WriteRecords received (or <<>>)
    manifest,    \* what WriteManifest received (or <<>>)
    \* deriveSeed called on its own
    dBase,       \* DeterministicGenerator.baseSeed
    dPath,       \* the path argument
    dIndex,      \* the recordIndex argument
    dOut,        \* the results of the calls made so far
    \* one record generated with the LLM configured
    lRules,      \* Validator.rules of the run
    lHealth,     \* the result of the health check of Generate: none, ok, failed
    lMode,       \* config.LLM.Mode
    lClient,     \* g.llmClient /= nil
    lPc,         \* position: health check, generateRecord, push, done
    lBase,       \* the value GenerateValue returned for the record (or <<>>)
    lFailed,     \* the fields whose LLM call failed
    lRec,        \* the generatedRecord of the worker (or <<>>)
    lChan,       \* resultChan
    \* callers of OllamaClient.generateWithRetry sharing the connection pool
    oMaxRetries, \* config.MaxRetries
    oMaxConns,   \* pool.maxConns
    oSem,        \* number of tokens in the buffer of pool.semaphore
    oPc,         \* per caller: position in generateWithRetry / doGenerate
    oAttempt,    \* per caller: the loop variable attempt
    oCtx,        \* per caller: its context is cancelled
    oCalls,      \* per caller: calls of doGenerate made so far
    oWaits,      \* per caller: the backoffs (seconds) that elapsed so far
    oLast,       \* per caller: how its last doGenerate call ended
    oResult      \* per caller: what generateWithRetry returned

genVars == <<gRaw, gSeed, gIndex, gOut>>
valVars == <<vRules, vData, vRec, vPc, vAfter>>
parseVars == <<pRaw, pNode, pRules, pData, pRec>>
pipeVars == <<schemaId, cfgSeed, workers, count, pipeRules, cancelled, gpc, sent, senderDone,
              recordChan, resultChan, resultClosed, wpc, wIdx, wRec, records, result,
              collectorDone, written, manifest>>
seedVars == <<dBase, dPath, dIndex, dOut>>
llmVars == <<lRules, lHealth, lMode, lClient, lPc, lBase, lFailed, lRec, lChan>>
clientVars == <<oMaxRetries, oMaxConns, oSem, oPc, oAttempt, oCtx, oCalls, oWaits, oLast,
                oResult>>
auxVars == <<seedVars, llmVars, clientVars>>
vars == <<genVars, valVars, parseVars, pipeVars, auxVars>>

None == <<>>
Some(v) == <<v>>
IsSome(o) == o /= <<>>
Get(o) == o[1]

(***************************************************************************)
(* Strings and bytes                                                       *)
(***************************************************************************)

\* The printable ASCII characters, code 32 first (the double quote, the
\* backslash and the backtick, which no string of the model holds, are spelled out).
AsciiChars ==
    <<" ", "!", "dquote", "#", "$", "%", "&", "'", "(", ")", "*", "+", ",", "-", ".", "/",
      "0", "1", "2", "3", "4", "5", "6", "7", "8", "9", ":", ";", "<", "=", ">", "?",
      "@", "A", "B", "C", "D", "E", "F", "G", "H", "I", "J", "K", "L", "M", "N", "O",
      "P", "Q", "R", "S", "T", "U", "V", "W", "X", "Y", "Z", "[", "bslash", "]", "^", "_",
      "btick", "a", "b", "c", "d", "e", "f", "g", "h", "i", "j", "k", "l", "m", "n", "o",
      "p", "q", "r", "s", "t", "u", "v", "w", "x", "y", "z", "{", "|", "}", "~">>

\* []byte(s)[i] for a printable character.
Ord(c) == 31 + CHOOSE i \in 1..Len(AsciiChars) : AsciiChars[i] = c

Bytes(s) == [i \in 1..Len(s) |-> Ord(s[i])]

RECURSIVE Itoa(_)
\* the %d verb of fmt for a non-negative int
Itoa(n) == IF n < 10 THEN <<AsciiChars[17 + n]>>
           ELSE Itoa(n \div 10) \o <<AsciiChars[17 + (n % 10)]>>

RECURSIVE BitXor(_, _)
BitXor(a, b) == IF a = 0 THEN b
                ELSE IF b = 0 THEN a
                ELSE 2 * BitXor(a \div 2, b \div 2) + (((a % 2) + (b % 2)) % 2)

(***************************************************************************)
(* 64-bit words as 8 little-endian limbs of 8 bits                         *)
(***************************************************************************)

RECURSIVE LimbsFrom(_, _)
\* the k low bytes of the two's complement of n
LimbsFrom(n, k) == IF k = 0 THEN <<>> ELSE <<n % 256>> \o LimbsFrom(n \div 256, k - 1)

\* an int64 of small magnitude as a 64-bit word
Int64Word(n) == LimbsFrom(n, 8)

WordXor(a, b) == [i \in 1..8 |-> BitXor(a[i], b[i])]

\* FNV-1a 64: offset basis 0xcbf29ce484222325, prime 0x100000001b3
fnvOffset64 == <<37, 35, 34, 132, 228, 156, 242, 203>>

RECURSIVE MulPrimeFrom(_, _, _)
\* h * 0x100000001b3 mod 2^64, limb k onwards with the carry so far
MulPrimeFrom(h, k, carry) ==
    IF k > 8 THEN <<>>
    ELSE LET t == h[k] * 179
                  + (IF k > 1 THEN h[k - 1] ELSE 0)
                  + (IF k > 5 THEN h[k - 5] ELSE 0)
                  + carry
         IN <<t % 256>> \o MulPrimeFrom(h, k + 1, t \div 256)

RECURSIVE fnvWrite(_, _, _)
\* hash.Hash64.Write of bytes bs[i..] into state h
fnvWrite(h, bs, i) ==
    IF i > Len(bs) THEN h
    ELSE fnvWrite(MulPrimeFrom([h EXCEPT ![1] = BitXor(h[1], bs[i])], 1, 0), bs, i + 1)

\* a seed derived from the base seed and the path alone
deriveSeedOfPath(baseSeed, path, recordIndex) ==
    LET h == fnvWrite(fnvOffset64, Bytes(path), 1)
    IN WordXor(Int64Word(baseSeed), [h EXCEPT ![8] = h[8] % 128])

\* deriveSeed: baseSeed ^ int64(FNV-1a(path ++ 4 LE bytes of recordIndex) & 0x7FFF...)
deriveSeed(baseSeed, path, recordIndex) ==
    LET h == fnvWrite(fnvWrite(fnvOffset64, Bytes(path), 1), LimbsFrom(recordIndex, 4), 1)
        pathHash == [h EXCEPT ![8] = h[8] % 128]
    IN WordXor(Int64Word(baseSeed), pathHash)

(***************************************************************************)
(* math/rand: a seeded source.  Go seeds its generator with a Lehmer       *)
(* sequence x' = 48271 x mod (2^31 - 1) started at seed mod (2^31 - 1); the *)
(* model keeps that shape with a narrower modulus.  Every draw consumes one *)
(* step of the stream.                                                     *)
(***************************************************************************)

RngModulus == 32749
RngMultiplier == 16807

RECURSIVE WordMod(_, _, _)
\* the word w, limbs k..1, reduced modulo RngModulus
WordMod(w, k, acc) ==
    IF k = 0 THEN acc ELSE WordMod(w, k - 1, (acc * 256 + w[k]) % RngModulus)

\* mathrand.New(mathrand.NewSource(seed))
NewSource(seed) == LET s == WordMod(seed, 8, 0) IN IF s = 0 THEN 1 ELSE s

RngStep(rng) == (RngMultiplier * rng) % RngModulus

\* rng.Intn(n) / rng.Int63n(n): panics for n <= 0
Intn(rng, n) == [v |-> RngStep(rng) % n, rng |-> RngStep(rng)]

\* rng.Float64() < num/den
FloatBelow(rng, num, den) == [v |-> RngStep(rng) * den < num * RngModulus, rng |-> RngStep(rng)]

(***************************************************************************)
(* float64 as a count of 1/FloatScale                                      *)
(***************************************************************************)

FloatScale == 100

\* the float64 of a whole number
F(n) == n * FloatScale

\* Go's integer division and float-to-int conversion truncate toward zero
TruncDiv(a, b) == IF a >= 0 THEN a \div b ELSE -((-a) \div b)

\* int64(x) / int(x) of a float64 x
Int64Of(x) == TruncDiv(x, FloatScale)

(***************************************************************************)
(* pkg/schema: the raw document (decoded JSON) and the parser              *)
(***************************************************************************)

\* A JSON object with none of the keys the parser reads.
EmptyRaw ==
    [type |-> None, properties |-> None, required |-> None, items |-> None,
     enum |-> None, examples |-> None, format |-> None, pattern |-> None,
     minimum |-> None, maximum |-> None, multipleOf |-> None,
     minLength |-> None, maxLength |-> None, minItems |-> None, maxItems |-> None,
     xllm |-> None, xrules |-> None]

\* A JSON rule object with none of its keys.
EmptyRawRule ==
    [name |-> None, description |-> None, fields |-> None, rule |-> None,
     severity |-> None, constraint |-> None, patch |-> None]

\* buildNode, lines 195-215: one CrossFieldRule from its JSON object.  Only name,
\* description, fields, rule and severity are read; Patch keeps its zero value.
\* (Constraint is the field Validator.validateCrossFieldRule reads; the parser
\* never sets it either.)
buildRule(ruleMap) ==
    [Name |-> IF IsSome(ruleMap.name) THEN Get(ruleMap.name) ELSE <<>>,
     Description |-> IF IsSome(ruleMap.description) THEN Get(ruleMap.description) ELSE <<>>,
     Fields |-> IF IsSome(ruleMap.fields) THEN Get(ruleMap.fields) ELSE <<>>,
     Rule |-> IF IsSome(ruleMap.rule) THEN Get(ruleMap.rule) ELSE "",
     Severity |-> IF IsSome(ruleMap.severity) THEN Get(ruleMap.severity) ELSE "",
     Constraint |-> <<>>,
     Patch |-> None]

\* buildNode, lines 192-218
buildRules(raw) ==
    IF IsSome(raw.xrules)
    THEN [i \in 1..Len(Get(raw.xrules)) |-> buildRule(Get(raw.xrules)[i])]
    ELSE <<>>

\* membership of a name in a sequence of names
InSeq(x, s) == \E i \in 1..Len(s) : s[i] = x

RECURSIVE buildNode(_, _, _, _)
\* Parser.buildNode
buildNode(raw, path, required, optionalProb) ==
    LET type == IF IsSome(raw.type) THEN Get(raw.type) ELSE ""
        isObj == type = "object" /\ IsSome(raw.properties)
        req == IF isObj /\ IsSome(raw.required) THEN Get(raw.required) ELSE <<>>
        props == Get(raw.properties)
        propPath(name) == (IF path /= <<>> THEN path \o <<".">> ELSE path) \o name
    IN [Path |-> path,
        IsRequired |-> required,
        OptionalProb |-> optionalProb,
        Type |-> type,
        Enum |-> IF IsSome(raw.enum) THEN Get(raw.enum) ELSE <<>>,
        Examples |-> IF IsSome(raw.examples) THEN Get(raw.examples) ELSE <<>>,
        Format |-> IF IsSome(raw.format) THEN Get(raw.format) ELSE "",
        Pattern |-> IF IsSome(raw.pattern) THEN Get(raw.pattern) ELSE <<>>,
        Minimum |-> raw.minimum,
        Maximum |-> raw.maximum,
        MultipleOf |-> raw.multipleOf,
        MinLength |-> IF IsSome(raw.minLength) THEN Some(Int64Of(Get(raw.minLength))) ELSE None,
        MaxLength |-> IF IsSome(raw.maxLength) THEN Some(Int64Of(Get(raw.maxLength))) ELSE None,
        MinItems |-> IF IsSome(raw.minItems) THEN Some(Int64Of(Get(raw.minItems))) ELSE None,
        MaxItems |-> IF IsSome(raw.maxItems) THEN Some(Int64Of(Get(raw.maxItems))) ELSE None,
        LLMEnhanced |-> IF IsSome(raw.xllm) THEN Get(raw.xllm) ELSE FALSE,
        CrossFieldRules |-> buildRules(raw),
        Properties |-> IF isObj
                       THEN Some([name \in DOMAIN props |->
                                    buildNode(props[name], propPath(name), InSeq(name, req),
                                              optionalProb)])
                       ELSE None,
        Required |-> req,
        Items |-> IF type = "array" /\ IsSome(raw.items)
                  THEN Some(buildNode(Get(raw.items), path \o <<"[", "]">>, TRUE, optionalProb))
                  ELSE None]

\* GetRootNode passes optionalProb 0.9, kept as the fraction 9/10
OptionalProbNum == 9
OptionalProbDen == 10

\* Parser.GetRootNode of a loaded document
GetRootNode(raw) == buildNode(raw, <<>>, FALSE, <<OptionalProbNum, OptionalProbDen>>)

RECURSIVE collectCrossFieldRules(_)
RECURSIVE collectFromProperties(_, _)
\* collectCrossFieldRules, lines 321-323: the loop over the map node.Properties,
\* in any of the orders the runtime may iterate it; the set of resulting lists
collectFromProperties(props, left) ==
    IF left = {} THEN {<<>>}
    ELSE UNION { { a \o b : a \in collectCrossFieldRules(props[name]),
                            b \in collectFromProperties(props, left \ {name}) }
                 : name \in left }

\* Parser.collectCrossFieldRules: the set of lists it may append to rules
collectCrossFieldRules(node) ==
    { node.CrossFieldRules \o a \o b :
        a \in (IF IsSome(node.Properties)
               THEN collectFromProperties(Get(node.Properties), DOMAIN Get(node.Properties))
               ELSE {<<>>}),
        b \in (IF IsSome(node.Items) THEN collectCrossFieldRules(Get(node.Items))
               ELSE {<<>>}) }

\* Parser.GetCrossFieldRules
GetCrossFieldRules(node) == collectCrossFieldRules(node)

(***************************************************************************)
(* strings package                                                         *)
(***************************************************************************)

\* s[i..] starts with sub
HasPrefixAt(s, i, sub) ==
    /\ i + Len(sub) - 1 <= Len(s)
    /\ \A k \in 1..Len(sub) : s[i + k - 1] = sub[k]

\* strings.Contains
Contains(s, sub) == \E i \in 1..(Len(s) + 1) : HasPrefixAt(s, i, sub)

\* strings.Index, 0-based, -1 when absent
Index(s, sub) ==
    IF Contains(s, sub)
    THEN (CHOOSE i \in 1..(Len(s) + 1) :
            /\ HasPrefixAt(s, i, sub)
            /\ \A j \in 1..(i - 1) : ~HasPrefixAt(s, j, sub)) - 1
    ELSE -1

(***************************************************************************)
(* pkg/generator/deterministic.go                                          *)
(*                                                                         *)
(* A call returns the set of its possible outcomes: a Go map is ranged     *)
(* over in an order the runtime chooses, so generateObject has one outcome *)
(* per order of its optional properties.  An outcome is                    *)
(* [st, val, rng]: st is "ok", "err" (a returned error) or "panic".        *)
(***************************************************************************)

NilValue == [t |-> "nil", v |-> <<>>]
StringValue(s) == [t |-> "string", v |-> s]
Int64Value(n) == [t |-> "int64", v |-> n]
Float64Value(x) == [t |-> "float64", v |-> x]
BoolValue(b) == [t |-> "bool", v |-> b]
ArrayValue(s) == [t |-> "array", v |-> s]
ObjectValue(m) == [t |-> "object", v |-> m]

Ok(val, rng) == [st |-> "ok", val |-> val, rng |-> rng]
Panic(rng) == [st |-> "panic", val |-> NilValue, rng |-> rng]

\* m[name] = val on a Go map
MapSet(m, name, val) == [k \in DOMAIN m \cup {name} |-> IF k = name THEN val ELSE m[k]]

\* delete(m, name)
MapDelete(m, name) == [k \in DOMAIN m \ {name} |-> m[k]]

\* charset[i] of generateRandomString: a-z, A-Z, 0-9
Charset(i) == IF i < 26 THEN AsciiChars[66 + i]
              ELSE IF i < 52 THEN AsciiChars[34 + (i - 26)]
              ELSE AsciiChars[17 + (i - 52)]

RECURSIVE generateRandomString(_, _)
\* generateRandomString: length draws of Intn(62); [v, rng]
generateRandomString(length, rng) ==
    IF length = 0 THEN [v |-> <<>>, rng |-> rng]
    ELSE LET d == Intn(rng, 62)
             rest == generateRandomString(length - 1, d.rng)
         IN [v |-> <<Charset(d.v)>> \o rest.v, rng |-> rest.rng]

emailDomains ==
    << <<"e","x","a","m","p","l","e",".","c","o","m">>, <<"t","e","s","t",".","o","r","g">>,
       <<"s","a","m","p","l","e",".","n","e","t">>, <<"d","e","m","o",".","c","o">> >>
emailNames ==
    << <<"u","s","e","r">>, <<"t","e","s","t">>, <<"d","e","m","o">>,
       <<"s","a","m","p","l","e">>, <<"j","o","h","n">>, <<"j","a","n","e">>,
       <<"a","d","m","i","n">> >>

\* generateEmail
generateEmail(rng) ==
    LET name == Intn(rng, Len(emailNames))
        domain == Intn(name.rng, Len(emailDomains))
        suffix == Intn(domain.rng, 1000)
    IN [v |-> emailNames[name.v + 1] \o Itoa(suffix.v) \o <<"@">> \o emailDomains[domain.v + 1],
        rng |-> suffix.rng]

\* the %0Nd verb of fmt for a non-negative int
ZeroPad(n, width) ==
    LET d == Itoa(n)
    IN IF Len(d) >= width THEN d ELSE [i \in 1..(width - Len(d)) |-> "0"] \o d

\* generatePhone
generatePhone(rng) ==
    LET area == Intn(rng, 800)
        exchange == Intn(area.rng, 800)
        number == Intn(exchange.rng, 10000)
    IN [v |-> <<"(">> \o ZeroPad(200 + area.v, 3) \o <<")", " ">>
              \o ZeroPad(200 + exchange.v, 3) \o <<"-">> \o ZeroPad(number.v, 4),
        rng |-> number.rng]

\* generateString without format and pattern, lines 112-127.  The clamp of
\* maxLen is inside the branch taken when MaxLength is set.
generatePlainString(node, rng) ==
    LET minLen == IF IsSome(node.MinLength) THEN Get(node.MinLength) ELSE 5
        maxLen == IF IsSome(node.MaxLength)
                  THEN (IF Get(node.MaxLength) < minLen THEN minLen ELSE Get(node.MaxLength))
                  ELSE 20
        n == maxLen - minLen + 1
    IN IF n <= 0 THEN {Panic(rng)}
       ELSE LET d == Intn(rng, n)
                str == generateRandomString(minLen + d.v, d.rng)
            IN {Ok(StringValue(str.v), str.rng)}

IsDigit(c) == \E d \in 0..9 : AsciiChars[17 + d] = c

RECURSIVE DigitsValue(_, _)
DigitsValue(s, acc) ==
    IF s = <<>> THEN acc ELSE DigitsValue(Tail(s), 10 * acc + (Ord(s[1]) - 48))

(***************************************************************************)
(* generateFromPattern: the exact-match table and the fallback             *)
(***************************************************************************)

\* the characters the table draws from: "ABC...Z", "0..9", the two joined
upperLetter(i) == AsciiChars[34 + i]
digitChar(i) == AsciiChars[17 + i]
alnumChar(i) == IF i < 26 THEN upperLetter(i) ELSE digitChar(i - 26)
digitUpperChar(i) == IF i < 10 THEN digitChar(i) ELSE upperLetter(i - 10)

\* one character drawn from the charset of a kind
drawnChar(kind, rng) ==
    CASE kind = "upper" -> upperLetter(Intn(rng, 26).v)
      [] kind = "digit" -> digitChar(Intn(rng, 10).v)
      [] kind = "alnum" -> alnumChar(Intn(rng, 36).v)
      [] OTHER -> digitUpperChar(Intn(rng, 36).v)

RECURSIVE RngSteps(_, _)
\* the source after n draws
RngSteps(rng, n) == IF n = 0 THEN rng ELSE RngSteps(RngStep(rng), n - 1)

\* n characters, one draw each; [v, rng]
drawChars(kind, n, rng) ==
    [v |-> [i \in 1..n |-> drawnChar(kind, RngSteps(rng, i - 1))], rng |-> RngSteps(rng, n)]

RECURSIVE decimalsOf(_, _)
\* the k decimal digits of floor(r * 10^k / RngModulus)
decimalsOf(r, k) ==
    IF k = 0 THEN <<>>
    ELSE <<digitChar((10 * r) \div RngModulus)>> \o decimalsOf((10 * r) % RngModulus, k - 1)

RECURSIVE stripZeros(_)
stripZeros(d) == IF Len(d) > 1 /\ d[1] = "0" THEN stripZeros(Tail(d)) ELSE d

RECURSIVE Pow10(_)
Pow10(k) == IF k = 0 THEN 1 ELSE 10 * Pow10(k - 1)

\* rng.Intn(10^k) printed with %d.  An argument within the range of the
\* source gives the draw modulo the argument, as Intn; a larger one gives the
\* draw stretched over 0 .. 10^k - 1, kept as its decimal digits (10^10 is
\* beyond the integers of the checker).
IntnPow10(rng, k) ==
    IF k <= 9 /\ Pow10(k) <= RngModulus
    THEN [v |-> Itoa(Intn(rng, Pow10(k)).v), rng |-> RngStep(rng)]
    ELSE [v |-> stripZeros(decimalsOf(RngStep(rng), k)), rng |-> RngStep(rng)]

\* a %d verb: no padding to a width
unpaddedDigits(d, w) == d

\* the %0wd verb of fmt on the digits of a non-negative number
padDigits(d, w) == IF Len(d) >= w THEN d ELSE [i \in 1..(w - Len(d)) |-> "0"] \o d

patternTable ==
    <<
       [pattern |-> <<"^", "[", "A", "-", "Z", "]", "{", "2", "}", "[", "0", "-", "9", "]", "{", "6", "}", "$">>,
        steps |-> << [op |-> "upper", n |-> 2, w |-> 0, text |-> <<>>],
                     [op |-> "digit", n |-> 6, w |-> 0, text |-> <<>>] >>],
       [pattern |-> <<"^", "P", "R", "D", "[", "0", "-", "9", "]", "{", "8", "}", "$">>,
        steps |-> << [op |-> "lit", n |-> 0, w |-> 0, text |-> <<"P", "R", "D">>],
                     [op |-> "dec", n |-> 8, w |-> 8, text |-> <<>>] >>],
       [pattern |-> <<"^", "P", "R", "D", "-", "[", "0", "-", "9", "]", "{", "6", "}", "$">>,
        steps |-> << [op |-> "lit", n |-> 0, w |-> 0, text |-> <<"P", "R", "D", "-">>],
                     [op |-> "dec", n |-> 6, w |-> 6, text |-> <<>>] >>],
       [pattern |-> <<"^", "W", "H", "[", "0", "-", "9", "]", "{", "3", "}", "$">>,
        steps |-> << [op |-> "lit", n |-> 0, w |-> 0, text |-> <<"W", "H">>],
                     [op |-> "dec", n |-> 3, w |-> 3, text |-> <<>>] >>],
       [pattern |-> <<"^", "S", "U", "P", "[", "0", "-", "9", "]", "{", "5", "}", "$">>,
        steps |-> << [op |-> "lit", n |-> 0, w |-> 0, text |-> <<"S", "U", "P">>],
                     [op |-> "dec", n |-> 5, w |-> 5, text |-> <<>>] >>],
       [pattern |-> <<"^", "T", "X", "N", "-", "[", "0", "-", "9", "]", "{", "1", "0", "}", "$">>,
        steps |-> << [op |-> "lit", n |-> 0, w |-> 0, text |-> <<"T", "X", "N", "-">>],
                     [op |-> "dec", n |-> 9, w |-> 10, text |-> <<>>] >>],
       [pattern |-> <<"^", "[", "0", "-", "9", "]", "{", "1", "0", "}", "$">>,
        steps |-> << [op |-> "dec", n |-> 9, w |-> 10, text |-> <<>>] >>],
       [pattern |-> <<"^", "[", "0", "-", "9", "]", "{", "9", "}", "$">>,
        steps |-> << [op |-> "dec", n |-> 9, w |-> 9, text |-> <<>>] >>],
       [pattern |-> <<"^", "[", "0", "-", "9", "]", "{", "4", "}", "$">>,
        steps |-> << [op |-> "dec", n |-> 4, w |-> 4, text |-> <<>>] >>],
       [pattern |-> <<"^", "[", "0", "-", "9", "]", "{", "5", "}", "$">>,
        steps |-> << [op |-> "dec", n |-> 5, w |-> 5, text |-> <<>>] >>],
       [pattern |-> <<"^", "[", "A", "-", "Z", "]", "[", "0", "-", "9", "]", "{", "2", "}", "bslash", ".", "[", "0", "-", "9", "]", "{", "1", ",", "2", "}", "$">>,
        steps |-> << [op |-> "upper", n |-> 1, w |-> 0, text |-> <<>>],
                     [op |-> "dec", n |-> 2, w |-> 2, text |-> <<>>],
                     [op |-> "lit", n |-> 0, w |-> 0, text |-> <<".">>],
                     [op |-> "dec", n |-> 2, w |-> 2, text |-> <<>>] >>],
       [pattern |-> <<"^", "[", "A", "-", "Z", "]", "{", "2", "}", "-", "[", "A", "-", "Z", "]", "{", "3", "}", "-", "[", "0", "-", "9", "]", "{", "3", "}", "$">>,
        steps |-> << [op |-> "upper", n |-> 2, w |-> 0, text |-> <<>>],
                     [op |-> "lit", n |-> 0, w |-> 0, text |-> <<"-">>],
                     [op |-> "upper", n |-> 3, w |-> 0, text |-> <<>>],
                     [op |-> "lit", n |-> 0, w |-> 0, text |-> <<"-">>],
                     [op |-> "digit", n |-> 3, w |-> 0, text |-> <<>>] >>],
       [pattern |-> <<"^", "P", "O", "[", "0", "-", "9", "]", "{", "8", "}", "$">>,
        steps |-> << [op |-> "lit", n |-> 0, w |-> 0, text |-> <<"P", "O">>],
                     [op |-> "dec", n |-> 8, w |-> 8, text |-> <<>>] >>],
       [pattern |-> <<"^", "[", "A", "-", "Z", "0", "-", "9", "]", "{", "2", ",", "1", "5", "}", "$">>,
        steps |-> << [op |-> "alnum", n |-> 2, w |-> 14, text |-> <<>>] >>],
       [pattern |-> <<"^", "[", "A", "-", "Z", "0", "-", "9", "]", "{", "6", ",", "2", "0", "}", "$">>,
        steps |-> << [op |-> "alnum", n |-> 6, w |-> 15, text |-> <<>>] >>],
       [pattern |-> <<"^", "M", "P", "N", "[", "A", "-", "Z", "0", "-", "9", "]", "{", "8", ",", "1", "5", "}", "$">>,
        steps |-> << [op |-> "lit", n |-> 0, w |-> 0, text |-> <<"M", "P", "N">>],
                     [op |-> "alnum", n |-> 8, w |-> 8, text |-> <<>>] >>],
       [pattern |-> <<"^", "[", "A", "-", "Z", "]", "{", "2", "}", "$">>,
        steps |-> << [op |-> "upper", n |-> 2, w |-> 0, text |-> <<>>] >>],
       [pattern |-> <<"^", "[", "0", "-", "9", "]", "{", "5", "}", "(", "-", "[", "0", "-", "9", "]", "{", "4", "}", ")", "?", "$">>,
        steps |-> << [op |-> "dec", n |-> 5, w |-> 5, text |-> <<>>],
                     [op |-> "zip4", n |-> 0, w |-> 0, text |-> <<>>] >>],
       [pattern |-> <<"^", "R", "X", "[", "0", "-", "9", "]", "{", "8", "}", "$">>,
        steps |-> << [op |-> "lit", n |-> 0, w |-> 0, text |-> <<"R", "X">>],
                     [op |-> "dec", n |-> 8, w |-> 8, text |-> <<>>] >>],
       [pattern |-> <<"^", "[", "0", "-", "9", "]", "{", "5", "}", "-", "[", "0", "-", "9", "]", "{", "4", "}", "-", "[", "0", "-", "9", "]", "{", "2", "}", "$">>,
        steps |-> << [op |-> "dec", n |-> 5, w |-> 5, text |-> <<>>],
                     [op |-> "lit", n |-> 0, w |-> 0, text |-> <<"-">>],
                     [op |-> "dec", n |-> 4, w |-> 4, text |-> <<>>],
                     [op |-> "lit", n |-> 0, w |-> 0, text |-> <<"-">>],
                     [op |-> "dec", n |-> 2, w |-> 2, text |-> <<>>] >>],
       [pattern |-> <<"^", "[", "A", "-", "Z", "]", "{", "2", "}", "[", "0", "-", "9", "]", "{", "7", "}", "$">>,
        steps |-> << [op |-> "upper", n |-> 2, w |-> 0, text |-> <<>>],
                     [op |-> "dec", n |-> 7, w |-> 7, text |-> <<>>] >>],
       [pattern |-> <<"^", "P", "A", "[", "0", "-", "9", "]", "{", "8", "}", "$">>,
        steps |-> << [op |-> "lit", n |-> 0, w |-> 0, text |-> <<"P", "A">>],
                     [op |-> "dec", n |-> 8, w |-> 8, text |-> <<>>] >>],
       [pattern |-> <<"^", "I", "N", "S", "[", "0", "-", "9", "]", "{", "6", "}", "$">>,
        steps |-> << [op |-> "lit", n |-> 0, w |-> 0, text |-> <<"I", "N", "S">>],
                     [op |-> "dec", n |-> 6, w |-> 6, text |-> <<>>] >>],
       [pattern |-> <<"^", "C", "L", "M", "[", "0", "-", "9", "]", "{", "1", "0", "}", "$">>,
        steps |-> << [op |-> "lit", n |-> 0, w |-> 0, text |-> <<"C", "L", "M">>],
                     [op |-> "dec", n |-> 10, w |-> 10, text |-> <<>>] >>],
       [pattern |-> <<"^", "[", "A", "-", "Z", "0", "-", "9", "]", "{", "8", ",", "1", "5", "}", "$">>,
        steps |-> << [op |-> "alnum", n |-> 8, w |-> 8, text |-> <<>>] >>],
       [pattern |-> <<"^", "[", "0", "-", "9", "]", "{", "2", "}", "-", "[", "0", "-", "9", "]", "{", "7", "}", "$">>,
        steps |-> << [op |-> "dec", n |-> 2, w |-> 2, text |-> <<>>],
                     [op |-> "lit", n |-> 0, w |-> 0, text |-> <<"-">>],
                     [op |-> "dec", n |-> 7, w |-> 7, text |-> <<>>] >>],
       [pattern |-> <<"^", "[", "A", "-", "Z", "0", "-", "9", "]", "{", "5", ",", "1", "0", "}", "$">>,
        steps |-> << [op |-> "alnum", n |-> 5, w |-> 6, text |-> <<>>] >>],
       [pattern |-> <<"^", "[", "A", "-", "Z", "]", "[", "0", "-", "9", "]", "{", "2", "}", "bslash", ".", "[", "0", "-", "9", "A", "-", "Z", "]", "{", "1", ",", "4", "}", "$">>,
        steps |-> << [op |-> "icd", n |-> 0, w |-> 0, text |-> <<>>] >>],
       [pattern |-> <<"^", "[", "A", "-", "Z", "0", "-", "9", "]", "{", "6", ",", "1", "2", "}", "$">>,
        steps |-> << [op |-> "alnum", n |-> 6, w |-> 7, text |-> <<>>] >>],
       [pattern |-> <<"^", "[", "0", "-", "9", "]", "{", "6", "}", "$">>,
        steps |-> << [op |-> "dec", n |-> 6, w |-> 6, text |-> <<>>] >>],
       [pattern |-> <<"^", "[", "A", "-", "Z", "0", "-", "9", "]", "{", "3", ",", "1", "0", "}", "$">>,
        steps |-> << [op |-> "alnum", n |-> 3, w |-> 8, text |-> <<>>] >>]
    >>

\* the ZIP+4 part: with rng.Float32() < 0.3 a dash and %04d of Intn(10000)
zipPlus4(rng) ==
    IF FloatBelow(rng, 3, 10).v
    THEN [v |-> <<"-">> \o padDigits(IntnPow10(RngStep(rng), 4).v, 4),
          rng |-> RngStep(RngStep(rng))]
    ELSE [v |-> <<>>, rng |-> RngStep(rng)]

\* the ICD-10 diagnosis code, once the length of the suffix is drawn: the
\* suffix is drawn first, then the letter and the two digits
icdWithSuffix(suffix) ==
    [v |-> drawChars("upper", 1, suffix.rng).v
           \o drawChars("digit", 2, RngStep(suffix.rng)).v \o <<".">> \o suffix.v,
     rng |-> RngStep(RngStep(RngStep(suffix.rng)))]

icdCode(rng) == icdWithSuffix(drawChars("digitupper", 1 + Intn(rng, 4).v, RngStep(rng)))

\* one part of a table entry; [v, rng]
patternStep(step, rng) ==
    CASE step.op = "lit" -> [v |-> step.text, rng |-> rng]
      [] step.op = "dec" ->
            [v |-> padDigits(IntnPow10(rng, step.n).v, step.w), rng |-> RngStep(rng)]
      [] step.op = "alnum" ->
            drawChars("alnum", step.n + Intn(rng, step.w).v, RngStep(rng))
      [] step.op = "zip4" -> zipPlus4(rng)
      [] step.op = "icd" -> icdCode(rng)
      [] OTHER -> drawChars(step.op, step.n, rng)

RECURSIVE patternSteps(_, _, _, _)
\* the parts i.. of a table entry, appended to acc
patternSteps(steps, i, rng, acc) ==
    IF i > Len(steps) THEN [v |-> acc, rng |-> rng]
    ELSE patternSteps(steps, i + 1, patternStep(steps[i], rng).rng,
                      acc \o patternStep(steps[i], rng).v)

\* extractNumericLength: the number between the first { and the first }, or 6
extractNumericLength(pattern) ==
    IF /\ Contains(pattern, <<"{">>) /\ Contains(pattern, <<"}">>)
       /\ Index(pattern, <<"}">>) > Index(pattern, <<"{">>) + 1
       /\ \A i \in (Index(pattern, <<"{">>) + 2)..Index(pattern, <<"}">>) :
             IsDigit(pattern[i])
    THEN DigitsValue(SubSeq(pattern, Index(pattern, <<"{">>) + 2, Index(pattern, <<"}">>)), 0)
    ELSE 6

\* generateFromPattern, lines 548-567: a pattern that is not in the table
patternFallback(pattern, rng) ==
    IF Contains(pattern, <<"[", "0", "-", "9", "]">>)
       /\ Contains(pattern, <<"[", "A", "-", "Z", "]">>)
    THEN generateRandomString(8, rng)
    ELSE IF Contains(pattern, <<"[", "0", "-", "9", "]">>)
    THEN [v |-> padDigits(IntnPow10(rng, extractNumericLength(pattern)).v,
                          extractNumericLength(pattern)),
          rng |-> RngStep(rng)]
    ELSE IF Contains(pattern, <<"[", "a", "-", "z", "A", "-", "Z", "]">>)
            \/ Contains(pattern, <<"[", "A", "-", "Z", "]">>)
    THEN generateRandomString(8, rng)
    ELSE generateRandomString(10, rng)

\* generateFromPattern; [v, rng]
generateFromPattern(pattern, rng) ==
    IF \E k \in DOMAIN patternTable : patternTable[k].pattern = pattern
    THEN patternSteps(patternTable[CHOOSE k \in DOMAIN patternTable :
                                       patternTable[k].pattern = pattern].steps,
                      1, rng, <<>>)
    ELSE patternFallback(pattern, rng)

\* generateString.  Of the formats, email and phone are modelled; the schemas
\* of this model use no other.
generateString(node, rng) ==
    IF node.Format = "email"
    THEN LET r == generateEmail(rng) IN {Ok(StringValue(r.v), r.rng)}
    ELSE IF node.Format = "phone"
    THEN LET r == generatePhone(rng) IN {Ok(StringValue(r.v), r.rng)}
    ELSE IF node.Pattern /= <<>>
    THEN {Ok(StringValue(generateFromPattern(node.Pattern, rng).v),
             generateFromPattern(node.Pattern, rng).rng)}
    ELSE generatePlainString(node, rng)

\* generateInteger
generateInteger(node, rng) ==
    LET min == IF IsSome(node.Minimum) THEN Int64Of(Get(node.Minimum)) ELSE 0
        max0 == IF IsSome(node.Maximum) THEN Int64Of(Get(node.Maximum)) ELSE 1000
        max == IF max0 < min THEN min ELSE max0
        d == Intn(rng, max - min + 1)
        value == min + d.v
        multiple == Int64Of(Get(node.MultipleOf))
    IN IF IsSome(node.MultipleOf) /\ multiple > 0
       THEN {Ok(Int64Value(TruncDiv(value, multiple) * multiple), d.rng)}
       ELSE {Ok(Int64Value(value), d.rng)}

\* math.Round(a / b) for b > 0: half away from zero
RoundDiv(a, b) == IF a >= 0 THEN (2 * a + b) \div (2 * b) ELSE -((2 * (-a) + b) \div (2 * b))

\* generateNumber: rng.Float64() is RngStep / RngModulus
generateNumber(node, rng) ==
    LET min == IF IsSome(node.Minimum) THEN Get(node.Minimum) ELSE F(0)
        max0 == IF IsSome(node.Maximum) THEN Get(node.Maximum) ELSE F(1000)
        max == IF max0 < min THEN min ELSE max0
        r == RngStep(rng)
        value == min + ((r \div 8) * (max - min)) \div (RngModulus \div 8)
    IN IF IsSome(node.MultipleOf) /\ Get(node.MultipleOf) > 0
       THEN {Ok(Float64Value(RoundDiv(value, Get(node.MultipleOf)) * Get(node.MultipleOf)), r)}
       ELSE {Ok(Float64Value(value), r)}

RECURSIVE generateValue(_, _, _)
RECURSIVE generateArrayItems(_, _, _, _, _)
RECURSIVE generateRequired(_, _, _, _, _)
RECURSIVE generateOptional(_, _, _, _, _)

RECURSIVE generateArrayItemsByLength(_, _, _, _, _)
\* items whose source is seeded with the length of the array they are in
generateArrayItemsByLength(baseSeed, node, i, length, acc) ==
    IF i >= length THEN {acc}
    ELSE UNION { IF o.st = "ok"
                 THEN generateArrayItemsByLength(baseSeed, node, i + 1, length,
                                                 [acc EXCEPT !.val = Append(acc.val, o.val)])
                 ELSE {[acc EXCEPT !.st = o.st]}
               : o \in generateValue(baseSeed, Get(node.Items),
                                     NewSource(deriveSeed(baseSeed,
                                                          node.Path \o <<"[">> \o Itoa(i)
                                                            \o <<"]">>,
                                                          length))) }

\* generateArray, lines 207-217: items i..length-1 after the items in acc; each
\* item draws from its own source, seeded with deriveSeed(path[i], 0)
generateArrayItems(baseSeed, node, i, length, acc) ==
    IF i >= length THEN {acc}
    ELSE LET itemPath == node.Path \o <<"[">> \o Itoa(i) \o <<"]">>
             itemRng == NewSource(deriveSeed(baseSeed, itemPath, 0))
         IN UNION { IF o.st = "ok"
                    THEN generateArrayItems(baseSeed, node, i + 1, length,
                                            [acc EXCEPT !.val = Append(acc.val, o.val)])
                    ELSE {[acc EXCEPT !.st = o.st]}
                  : o \in generateValue(baseSeed, Get(node.Items), itemRng) }

\* generateArray.  The clamp of maxItems is inside the branch taken when
\* MaxItems is set.
generateArray(baseSeed, node, rng) ==
    IF ~IsSome(node.Items) THEN {Ok(ArrayValue(<<>>), rng)}
    ELSE LET minItems == IF IsSome(node.MinItems) THEN Get(node.MinItems) ELSE 1
             maxItems == IF IsSome(node.MaxItems)
                         THEN (IF Get(node.MaxItems) < minItems THEN minItems
                               ELSE Get(node.MaxItems))
                         ELSE 5
             n == maxItems - minItems + 1
         IN IF n <= 0 THEN {Panic(rng)}
            ELSE LET d == Intn(rng, n)
                 IN { [st |-> a.st,
                       val |-> IF a.st = "ok" THEN ArrayValue(a.val) ELSE NilValue,
                       rng |-> d.rng]
                    : a \in generateArrayItems(baseSeed, node, 0, minItems + d.v,
                                               [st |-> "ok", val |-> <<>>]) }

\* generateObject, lines 231-239: the required names from position i, in list
\* order, on the shared source; a name without an entry in Properties is skipped
generateRequired(baseSeed, node, i, res, rng) ==
    IF i > Len(node.Required) THEN {Ok(res, rng)}
    ELSE LET propName == node.Required[i]
             props == Get(node.Properties)
         IN IF propName \in DOMAIN props
            THEN UNION { IF o.st = "ok"
                         THEN generateRequired(baseSeed, node, i + 1,
                                               MapSet(res, propName, o.val), o.rng)
                         ELSE {[o EXCEPT !.val = NilValue]}
                       : o \in generateValue(baseSeed, props[propName], rng) }
            ELSE generateRequired(baseSeed, node, i + 1, res, rng)

\* generateObject, lines 247-258: range over the map; `left` holds the names the
\* range has not reached, and the runtime picks which comes next
generateOptional(baseSeed, node, left, res, rng) ==
    IF left = {} THEN {Ok(res, rng)}
    ELSE UNION {
           LET prop == Get(node.Properties)[propName]
               rest == left \ {propName}
           IN IF InSeq(propName, node.Required)
              THEN generateOptional(baseSeed, node, rest, res, rng)
              ELSE LET d == FloatBelow(rng, prop.OptionalProb[1], prop.OptionalProb[2])
                   IN IF d.v
                      THEN UNION { IF o.st = "ok"
                                   THEN generateOptional(baseSeed, node, rest,
                                                         MapSet(res, propName, o.val), o.rng)
                                   ELSE {[o EXCEPT !.val = NilValue]}
                                 : o \in generateValue(baseSeed, prop, d.rng) }
                      ELSE generateOptional(baseSeed, node, rest, res, d.rng)
         : propName \in left }

\* generateObject
generateObject(baseSeed, node, rng) ==
    IF ~IsSome(node.Properties) THEN {Ok(ObjectValue(<<>>), rng)}
    ELSE UNION { IF r.st = "ok"
                 THEN { [o EXCEPT !.val = IF o.st = "ok" THEN ObjectValue(o.val) ELSE NilValue]
                        : o \in generateOptional(baseSeed, node,
                                                 DOMAIN Get(node.Properties), r.val, r.rng) }
                 ELSE {r}
               : r \in generateRequired(baseSeed, node, 1, <<>>, rng) }

\* generateValue, lines 68-86: the dispatch on the node type
generateByType(baseSeed, node, rng) ==
    CASE node.Type = "string" -> generateString(node, rng)
      [] node.Type = "integer" -> generateInteger(node, rng)
      [] node.Type = "number" -> generateNumber(node, rng)
      [] node.Type = "boolean" ->
            LET d == FloatBelow(rng, 1, 2) IN {Ok(BoolValue(d.v), d.rng)}
      [] node.Type = "array" -> generateArray(baseSeed, node, rng)
      [] node.Type = "object" -> generateObject(baseSeed, node, rng)
      [] node.Type = "null" -> {Ok(NilValue, rng)}
      [] OTHER -> generateString(node, rng)

\* generateValue
generateValue(baseSeed, node, rng) ==
    IF Len(node.Enum) > 0
    THEN LET d == Intn(rng, Len(node.Enum)) IN {Ok(node.Enum[d.v + 1], d.rng)}
    ELSE IF Len(node.Examples) > 0
    THEN LET use == FloatBelow(rng, 7, 10)
         IN IF use.v
            THEN LET d == Intn(use.rng, Len(node.Examples))
                 IN {Ok(node.Examples[d.v + 1], d.rng)}
            ELSE generateByType(baseSeed, node, use.rng)
    ELSE generateByType(baseSeed, node, rng)

\* GenerateValue: a fresh source seeded for the node's path and the record index
GenerateValue(baseSeed, node, recordIndex) ==
    generateValue(baseSeed, node, NewSource(deriveSeed(baseSeed, node.Path, recordIndex)))

(***************************************************************************)
(* Idle values of the harnesses a specification does not use               *)
(***************************************************************************)

GenIdle == gRaw = EmptyRaw /\ gSeed = 0 /\ gIndex = 0 /\ gOut = <<>>
ValIdle == vRules = <<>> /\ vData = <<>> /\ vRec = None /\ vPc = "idle" /\ vAfter = None
ParseIdle ==
    pRaw = EmptyRaw /\ pNode = None /\ pRules = None /\ pData = None /\ pRec = None
PipeIdle ==
    /\ schemaId = 0 /\ cfgSeed = 0 /\ workers = 0 /\ count = 0 /\ pipeRules = <<>>
    /\ cancelled = FALSE /\ gpc = "idle" /\ sent = 0 /\ senderDone = FALSE
    /\ recordChan = <<>> /\ resultChan = <<>> /\ resultClosed = FALSE
    /\ wpc = <<>> /\ wIdx = <<>> /\ wRec = <<>>
    /\ records = <<>> /\ result = <<>> /\ collectorDone = FALSE /\ written = None
    /\ manifest = None

SeedIdle == dBase = 0 /\ dPath = <<>> /\ dIndex = 0 /\ dOut = <<>>
LLMIdle ==
    /\ lRules = <<>> /\ lHealth = "none" /\ lMode = "off" /\ lClient = FALSE /\ lPc = "idle"
    /\ lBase = None /\ lFailed = {} /\ lRec = None /\ lChan = <<>>
ClientIdle ==
    /\ oMaxRetries = 0 /\ oMaxConns = 0 /\ oSem = 0
    /\ oPc = <<>> /\ oAttempt = <<>> /\ oCtx = <<>> /\ oCalls = <<>> /\ oWaits = <<>>
    /\ oLast = <<>> /\ oResult = <<>>
AuxIdle == SeedIdle /\ LLMIdle /\ ClientIdle

(***************************************************************************)
(* SpecGen: GenerateValue called on the root node of a schema              *)
(***************************************************************************)

\* number of independent GenerateValue calls made on one input
MaxCalls == 2
\* record indices 0..MaxRecordIndex
MaxRecordIndex == 1

BaseSeeds == {0, 12345}

nameA == <<"a">>
nameB == <<"b">>
nameC == <<"c">>
nameO == <<"o">>
nameX == <<"x">>

Typed(type) == [EmptyRaw EXCEPT !.type = Some(type)]

IntegerSchemas ==
    { [Typed("integer") EXCEPT !.minimum = lo, !.maximum = hi, !.multipleOf = k]
      : lo \in {None, Some(F(-7)), Some(F(5))},
        hi \in {None, Some(F(-3)), Some(F(7)), Some(F(15))},
        k \in {None, Some(F(0)), Some(F(3)), Some(F(10))} }

StringSchemas ==
    { [Typed("string") EXCEPT !.minLength = lo, !.maxLength = hi]
      : lo \in {None, Some(F(0)), Some(F(3)), Some(F(21)), Some(F(30))},
        hi \in {None, Some(F(2)), Some(F(4)), Some(F(25))} }

ScalarSchemas ==
    { Typed("boolean"), Typed("null"), Typed("number"), Typed(""),
      [Typed("string") EXCEPT !.format = Some("email")],
      [Typed("string") EXCEPT !.format = Some("phone")],
      [Typed("string") EXCEPT !.enum = Some(<<StringValue(<<"x">>), StringValue(<<"y">>),
                                              StringValue(<<"z">>)>>)],
      [Typed("integer") EXCEPT !.examples = Some(<<Float64Value(F(7)), Float64Value(F(9))>>)],
      [Typed("number") EXCEPT !.minimum = Some(F(1)), !.maximum = Some(F(2)),
                              !.multipleOf = Some(25)] }

smallInt == [Typed("integer") EXCEPT !.maximum = Some(F(9))]
smallString == [Typed("string") EXCEPT !.minLength = Some(F(1)), !.maxLength = Some(F(2))]

Object(props, required) ==
    [Typed("object") EXCEPT !.properties = Some(props), !.required = required]

twoOptional == Object((nameA :> smallInt) @@ (nameB :> smallInt), None)

ArraySchemas ==
    { [Typed("array") EXCEPT !.items = items, !.minItems = lo, !.maxItems = hi]
      : items \in {None, Some(smallInt)},
        lo \in {None, Some(F(0)), Some(F(2)), Some(F(6))},
        hi \in {None, Some(F(1)), Some(F(3))} }

ObjectSchemas ==
    { twoOptional,
      Typed("object"),
      [Typed("object") EXCEPT !.required = Some(<<nameA>>)],
      Object((nameA :> smallInt) @@ (nameB :> smallString), Some(<<nameA>>)),
      Object((nameA :> smallInt) @@ (nameB :> smallString), Some(<<nameB, nameA>>)),
      Object((nameA :> smallInt), Some(<<nameA, nameX>>)),
      Object((nameA :> smallInt) @@ (nameB :> smallInt), Some(<<nameX>>)),
      Object((nameA :> smallInt) @@ (nameB :> smallInt) @@ (nameC :> Typed("boolean")),
             Some(<<nameB>>)),
      Object((nameA :> smallInt) @@ (nameB :> smallInt) @@ (nameC :> smallString), None),
      Object((nameO :> twoOptional) @@ (nameA :> smallInt), Some(<<nameO, nameA>>)),
      Object((nameO :> Object((nameA :> smallInt), Some(<<nameA, nameX>>))), Some(<<nameO>>)),
      Object((nameA :> [Typed("array") EXCEPT !.items = Some(smallInt)]), Some(<<nameA>>)),
      [Typed("array") EXCEPT !.items = Some(twoOptional), !.maxItems = Some(F(2))] }

GenSchemas == IntegerSchemas \cup StringSchemas \cup ScalarSchemas \cup ArraySchemas
              \cup ObjectSchemas

GenInit ==
    /\ gRaw \in GenSchemas
    /\ gSeed \in BaseSeeds
    /\ gIndex \in 0..MaxRecordIndex
    /\ gOut = <<>>
    /\ ValIdle /\ ParseIdle /\ PipeIdle /\ AuxIdle

\* the node the calls are made on
gNode == GetRootNode(gRaw)

\* one more independent call of GenerateValue(node, recordIndex)
CallGenerateValue ==
    /\ Len(gOut) < MaxCalls
    /\ \E o \in GenerateValue(gSeed, gNode, gIndex) : gOut' = Append(gOut, o)
    /\ UNCHANGED <<gRaw, gSeed, gIndex, valVars, parseVars, pipeVars, auxVars>>

GenNext == CallGenerateValue

SpecGen == GenInit /\ [][GenNext]_vars

(***************************************************************************)
(* Claims about the value generator (checked under SpecGen)                *)
(***************************************************************************)

\* the root node is generated by type (it has neither enum nor examples)
ByType(type) == gNode.Type = type /\ gNode.Enum = <<>> /\ gNode.Examples = <<>>

\* C1: for a fixed base seed, schema tree and record index, any two independent
\* calls of GenerateValue return identical values (no schema of SpecGen has a
\* date or date-time format).
C1_SameValueOnEveryCall ==
    \A i, j \in DOMAIN gOut : gOut[i].st = gOut[j].st /\ gOut[i].val = gOut[j].val

RECURSIVE RequiredComplete(_, _)
\* every object in val, generated for node, has a key for every required name
RequiredComplete(node, val) ==
    IF val.t = "object" /\ node.Type = "object"
    THEN /\ \A k \in 1..Len(node.Required) : node.Required[k] \in DOMAIN val.v
         /\ \A name \in DOMAIN val.v :
               RequiredComplete(Get(node.Properties)[name], val.v[name])
    ELSE IF val.t = "array" /\ node.Type = "array"
    THEN \A k \in 1..Len(val.v) : RequiredComplete(Get(node.Items), val.v[k])
    ELSE TRUE

\* C3: every object value that generateObject returns without an error has a key
\* for every name of the node's required list, whether or not the name has an
\* entry in properties.
C3_RequiredKeysPresent ==
    \A i \in DOMAIN gOut : gOut[i].st = "ok" => RequiredComplete(gNode, gOut[i].val)

\* the bounds the claims state, from the node's own constraints
ClaimLow(opt, default) == IF IsSome(opt) THEN Get(opt) ELSE F(default)
ClaimHigh(opt, default, low) ==
    LET hi == IF IsSome(opt) THEN Get(opt) ELSE F(default) IN IF hi < low THEN low ELSE hi

\* C4: generateInteger returns v with minimum <= v <= maximum (defaults 0 and
\* 1000, maximum raised to minimum when below it) and, when multipleOf = k > 0,
\* v mod k = 0.
C4_IntegerInRangeAndMultiple ==
    \A i \in DOMAIN gOut :
        ByType("integer") =>
            LET lo == ClaimLow(gNode.Minimum, 0)
                hi == ClaimHigh(gNode.Maximum, 1000, lo)
                v == F(gOut[i].val.v)
            IN /\ gOut[i].st = "ok"
               /\ lo <= v /\ v <= hi
               /\ (IsSome(gNode.MultipleOf) /\ Get(gNode.MultipleOf) > 0)
                      => v % Get(gNode.MultipleOf) = 0

\* C5: for a string node without format and pattern, generateString never fails
\* and returns a string of length L with min <= L <= max, min = minLength
\* (default 5), max = maxLength (default 20) raised to min when below it.
C5_StringLengthInRange ==
    \A i \in DOMAIN gOut :
        (ByType("string") /\ gNode.Format = "" /\ gNode.Pattern = <<>>) =>
            LET lo == ClaimLow(gRaw.minLength, 5)
                hi == ClaimHigh(gRaw.maxLength, 20, lo)
            IN /\ gOut[i].st = "ok"
               /\ lo <= F(Len(gOut[i].val.v)) /\ F(Len(gOut[i].val.v)) <= hi

\* C6: for an array node with an items schema, generateArray never fails and
\* returns an array of length n with min <= n <= max, min = minItems (default
\* 1), max = maxItems (default 5) raised to min when below it.
C6_ArrayLengthInRange ==
    \A i \in DOMAIN gOut :
        (ByType("array") /\ IsSome(gNode.Items)) =>
            LET lo == ClaimLow(gRaw.minItems, 1)
                hi == ClaimHigh(gRaw.maxItems, 5, lo)
            IN /\ gOut[i].st = "ok"
               /\ lo <= F(Len(gOut[i].val.v)) /\ F(Len(gOut[i].val.v)) <= hi

(***************************************************************************)
(* More of the strings package                                             *)
(***************************************************************************)

RECURSIVE Split(_, _)
\* strings.Split for a non-empty separator
Split(s, sep) ==
    LET i == Index(s, sep)
    IN IF i < 0 THEN <<s>>
       ELSE <<SubSeq(s, 1, i)>> \o Split(SubSeq(s, i + Len(sep) + 1, Len(s)), sep)

RECURSIVE TrimLeft(_)
TrimLeft(s) == IF s /= <<>> /\ s[1] = " " THEN TrimLeft(Tail(s)) ELSE s

RECURSIVE TrimRight(_)
TrimRight(s) == IF s /= <<>> /\ s[Len(s)] = " " THEN TrimRight(SubSeq(s, 1, Len(s) - 1)) ELSE s

\* strings.TrimSpace (the only white space of the model's strings is the blank)
TrimSpace(s) == TrimRight(TrimLeft(s))

RECURSIVE Join(_, _)
\* strings.Join
Join(parts, sep) ==
    IF parts = <<>> THEN <<>>
    ELSE IF Len(parts) = 1 THEN parts[1]
    ELSE parts[1] \o sep \o Join(Tail(parts), sep)

RECURSIVE StrGreater(_, _)
\* a > b on Go strings: byte-wise lexicographic order
StrGreater(a, b) ==
    IF a = <<>> THEN FALSE
    ELSE IF b = <<>> THEN TRUE
    ELSE IF a[1] = b[1] THEN StrGreater(Tail(a), Tail(b))
    ELSE Ord(a[1]) > Ord(b[1])

\* strconv.ParseFloat(s, 64) on the strings of the model: an optional sign and
\* decimal digits (no string of the model holds a period, an exponent, inf or nan)
ParseFloat(s) ==
    LET signed == s /= <<>> /\ s[1] \in {"-", "+"}
        digits == IF signed THEN Tail(s) ELSE s
    IN IF digits /= <<>> /\ \A i \in 1..Len(digits) : IsDigit(digits[i])
       THEN Some(IF signed /\ s[1] = "-" THEN -F(DigitsValue(digits, 0))
                 ELSE F(DigitsValue(digits, 0)))
       ELSE None

\* the %f and %.6f verbs of fmt
FormatF(x) ==
    LET a == IF x < 0 THEN -x ELSE x
    IN (IF x < 0 THEN <<"-">> ELSE <<>>) \o Itoa(a \div FloatScale) \o <<".">>
       \o ZeroPad(a % FloatScale, 2) \o <<"0", "0", "0", "0">>

(***************************************************************************)
(* pkg/validator: message texts                                            *)
(***************************************************************************)

\* "Cross-field rule '"
txtCrossFieldRule ==
    <<"C","r","o","s","s","-","f","i","e","l","d"," ","r","u","l","e"," ","'">>
\* "' failed: "
txtFailed ==
    <<"'"," ","f","a","i","l","e","d",":"," ">>
\* "rule '"
txtRuleQuote ==
    <<"r","u","l","e"," ","'">>
\* "unknown rule type: "
txtUnknownRuleType ==
    <<"u","n","k","n","o","w","n"," ","r","u","l","e"," ","t","y","p","e",":"," ">>
\* "date_ordering requires at least 2 fields"
txtDateArity ==
    <<"d","a","t","e","_","o","r","d","e","r","i","n","g"," ","r","e","q","u","i","r","e","s"," ","a","t"," ","l","e","a","s","t"," ","2"," ","f","i","e","l","d","s">>
\* "field "
txtField ==
    <<"f","i","e","l","d"," ">>
\* " is not a string date"
txtNotStringDate ==
    <<" ","i","s"," ","n","o","t"," ","a"," ","s","t","r","i","n","g"," ","d","a","t","e">>
\* "date ordering violation: "
txtDateViolation ==
    <<"d","a","t","e"," ","o","r","d","e","r","i","n","g"," ","v","i","o","l","a","t","i","o","n",":"," ">>
\* ") should be <= "
txtShouldBeLe ==
    <<")"," ","s","h","o","u","l","d"," ","b","e"," ","<","="," ">>
\* "amount_range requires exactly 3 fields: amount, min, max"
txtAmountArity ==
    <<"a","m","o","u","n","t","_","r","a","n","g","e"," ","r","e","q","u","i","r","e","s"," ","e","x","a","c","t","l","y"," ","3"," ","f","i","e","l","d","s",":"," ","a","m","o","u","n","t",","," ","m","i","n",","," ","m","a","x">>
\* "amount "
txtAmount ==
    <<"a","m","o","u","n","t"," ">>
\* " is outside range ["
txtOutsideRange ==
    <<" ","i","s"," ","o","u","t","s","i","d","e"," ","r","a","n","g","e"," ","[">>
\* "conditional_required requires exactly 2 fields: condition, required"
txtCondArity ==
    <<"c","o","n","d","i","t","i","o","n","a","l","_","r","e","q","u","i","r","e","d"," ","r","e","q","u","i","r","e","s"," ","e","x","a","c","t","l","y"," ","2"," ","f","i","e","l","d","s",":"," ","c","o","n","d","i","t","i","o","n",","," ","r","e","q","u","i","r","e","d">>
\* " is required when "
txtIsRequiredWhen ==
    <<" ","i","s"," ","r","e","q","u","i","r","e","d"," ","w","h","e","n"," ">>
\* " is present"
txtIsPresent ==
    <<" ","i","s"," ","p","r","e","s","e","n","t">>
\* "mutually exclusive fields present: "
txtMutex ==
    <<"m","u","t","u","a","l","l","y"," ","e","x","c","l","u","s","i","v","e"," ","f","i","e","l","d","s"," ","p","r","e","s","e","n","t",":"," ">>
\* "sum_constraint requires at least 3 fields: field1, field2, ..., target_sum"
txtSumArity ==
    <<"s","u","m","_","c","o","n","s","t","r","a","i","n","t"," ","r","e","q","u","i","r","e","s"," ","a","t"," ","l","e","a","s","t"," ","3"," ","f","i","e","l","d","s",":"," ","f","i","e","l","d","1",","," ","f","i","e","l","d","2",","," ",".",".",".",","," ","t","a","r","g","e","t","_","s","u","m">>
\* "sum constraint violation: sum of "
txtSumViolation ==
    <<"s","u","m"," ","c","o","n","s","t","r","a","i","n","t"," ","v","i","o","l","a","t","i","o","n",":"," ","s","u","m"," ","o","f"," ">>
\* ", expected "
txtExpected ==
    <<","," ","e","x","p","e","c","t","e","d"," ">>
\* "comparison rule requires at least 2 fields"
txtCmpArity ==
    <<"c","o","m","p","a","r","i","s","o","n"," ","r","u","l","e"," ","r","e","q","u","i","r","e","s"," ","a","t"," ","l","e","a","s","t"," ","2"," ","f","i","e","l","d","s">>
\* "invalid constraint format: "
txtInvalidFormat ==
    <<"i","n","v","a","l","i","d"," ","c","o","n","s","t","r","a","i","n","t"," ","f","o","r","m","a","t",":"," ">>
\* "unsupported comparison operator in constraint: "
txtUnsupportedOp ==
    <<"u","n","s","u","p","p","o","r","t","e","d"," ","c","o","m","p","a","r","i","s","o","n"," ","o","p","e","r","a","t","o","r"," ","i","n"," ","c","o","n","s","t","r","a","i","n","t",":"," ">>
\* "constraint violation: "
txtConstraintViolation ==
    <<"c","o","n","s","t","r","a","i","n","t"," ","v","i","o","l","a","t","i","o","n",":"," ">>
\* ") should be "
txtShouldBe ==
    <<")"," ","s","h","o","u","l","d"," ","b","e"," ">>

(***************************************************************************)
(* pkg/validator: cross-field rules                                        *)
(*                                                                         *)
(* A record is a Go map: a function from field names to values.  A check   *)
(* returns None (nil) or Some(message).                                    *)
(***************************************************************************)

\* getNumericValue
getNumericValue(data, field) ==
    IF field \in DOMAIN data
    THEN LET val == data[field]
         IN CASE val.t = "float64" -> val.v
              [] val.t = "int" -> F(val.v)
              [] val.t = "int64" -> F(val.v)
              [] val.t = "string" ->
                    (IF IsSome(ParseFloat(val.v)) THEN Get(ParseFloat(val.v)) ELSE F(0))
              [] OTHER -> F(0)
    ELSE F(0)

\* isTruthy
isTruthy(val) ==
    CASE val.t = "nil" -> FALSE
      [] val.t = "bool" -> val.v
      [] val.t = "string" -> val.v /= <<>>
      [] val.t \in {"int", "int64", "float64"} -> val.v /= 0
      [] OTHER -> TRUE

\* validateDateOrdering, lines 902-911: the first field that is present and not
\* a string, if any
FirstNonString(data, fields) ==
    LET bad == {i \in 1..Len(fields) : fields[i] \in DOMAIN data /\ data[fields[i]].t /= "string"}
    IN IF bad = {} THEN None ELSE Some(CHOOSE i \in bad : \A j \in bad : i <= j)

\* a date ordering that compares two neighbours only when both are present
validateDateOrderingOfPresent(data, fields) ==
    IF Len(fields) < 2 THEN Some(txtDateArity)
    ELSE IF IsSome(FirstNonString(data, fields))
    THEN Some(txtField \o fields[Get(FirstNonString(data, fields))] \o txtNotStringDate)
    ELSE IF \E i \in 2..Len(fields) :
              /\ fields[i - 1] \in DOMAIN data /\ fields[i] \in DOMAIN data
              /\ StrGreater(data[fields[i - 1]].v, data[fields[i]].v)
    THEN Some(txtDateViolation)
    ELSE None

\* validateDateOrdering
validateDateOrdering(data, fields) ==
    IF Len(fields) < 2 THEN Some(txtDateArity)
    ELSE IF IsSome(FirstNonString(data, fields))
    THEN Some(txtField \o fields[Get(FirstNonString(data, fields))] \o txtNotStringDate)
    ELSE LET dates == [i \in 1..Len(fields) |->
                         IF fields[i] \in DOMAIN data THEN data[fields[i]].v ELSE <<>>]
             bad == {i \in 2..Len(fields) : StrGreater(dates[i - 1], dates[i])}
         IN IF bad = {} THEN None
            ELSE LET i == CHOOSE k \in bad : \A j \in bad : k <= j
                 IN Some(txtDateViolation \o fields[i - 1] \o <<" ", "(">> \o dates[i - 1]
                         \o txtShouldBeLe \o fields[i] \o <<" ", "(">> \o dates[i] \o <<")">>)

\* validateAmountRange
validateAmountRange(data, fields) ==
    IF Len(fields) /= 3 THEN Some(txtAmountArity)
    ELSE LET amount == getNumericValue(data, fields[1])
             min == getNumericValue(data, fields[2])
             max == getNumericValue(data, fields[3])
         IN IF amount < min \/ amount > max
            THEN Some(txtAmount \o FormatF(amount) \o txtOutsideRange \o FormatF(min)
                      \o <<",", " ">> \o FormatF(max) \o <<"]">>)
            ELSE None

\* validateConditionalRequired
validateConditionalRequired(data, fields) ==
    IF Len(fields) /= 2 THEN Some(txtCondArity)
    ELSE IF /\ fields[1] \in DOMAIN data
            /\ isTruthy(data[fields[1]])
            /\ fields[2] \notin DOMAIN data
    THEN Some(txtField \o fields[2] \o txtIsRequiredWhen \o fields[1] \o txtIsPresent)
    ELSE None

\* validateMutualExclusion
validateMutualExclusion(data, fields) ==
    LET presentFields == SelectSeq(fields, LAMBDA f : f \in DOMAIN data)
    IN IF Len(presentFields) > 1
       THEN Some(txtMutex \o Join(presentFields, <<",", " ">>))
       ELSE None

RECURSIVE SumOf(_, _)
SumOf(data, fields) ==
    IF fields = <<>> THEN 0 ELSE getNumericValue(data, fields[1]) + SumOf(data, Tail(fields))

\* tolerance := 0.01, in units of 1/FloatScale
tolerance == 1

\* validateSumConstraint
validateSumConstraint(data, fields) ==
    IF Len(fields) < 3 THEN Some(txtSumArity)
    ELSE LET sumFields == SubSeq(fields, 1, Len(fields) - 1)
             sum == SumOf(data, sumFields)
             target == getNumericValue(data, fields[Len(fields)])
             diff == IF sum - target < 0 THEN target - sum ELSE sum - target
         IN IF diff > tolerance
            THEN Some(txtSumViolation \o Join(sumFields, <<"+">>) \o <<" ", "=", " ">>
                      \o FormatF(sum) \o txtExpected \o FormatF(target))
            ELSE None

\* evaluateExpression
evaluateExpression(data, expr0) ==
    LET expr == TrimSpace(expr0)
        has(op) == Contains(expr, <<op>>)
        parts(op) == Split(expr, <<op>>)
        num(x) == getNumericValue(data, TrimSpace(x))
    IN IF ~has("+") /\ ~has("-") /\ ~has("*") /\ ~has("/")
       THEN getNumericValue(data, expr)
       ELSE IF has("+")
       THEN SumOf(data, [i \in 1..Len(parts("+")) |-> TrimSpace(parts("+")[i])])
       ELSE IF has("-") /\ Len(parts("-")) = 2
       THEN num(parts("-")[1]) - num(parts("-")[2])
       ELSE IF has("*") /\ Len(parts("*")) = 2
       THEN TruncDiv(num(parts("*")[1]) * num(parts("*")[2]), FloatScale)
       ELSE getNumericValue(data, expr)

\* an operator search that tests the one-character operators first
comparisonOperatorShortFirst(constraint) ==
    IF Contains(constraint, <<">">>) THEN <<">">>
    ELSE IF Contains(constraint, <<"<">>) THEN <<"<">>
    ELSE IF Contains(constraint, <<">", "=">>) THEN <<">", "=">>
    ELSE IF Contains(constraint, <<"<", "=">>) THEN <<"<", "=">>
    ELSE <<>>

\* validateComparison, lines 1096-1130: the operator found, by priority
comparisonOperator(constraint) ==
    IF Contains(constraint, <<">", "=">>) THEN <<">", "=">>
    ELSE IF Contains(constraint, <<"<", "=">>) THEN <<"<", "=">>
    ELSE IF Contains(constraint, <<">">>) THEN <<">">>
    ELSE IF Contains(constraint, <<"<">>) THEN <<"<">>
    ELSE <<>>

\* validateComparison
validateComparison(data, fields, constraint0) ==
    IF Len(fields) < 2 THEN Some(txtCmpArity)
    ELSE LET constraint == TrimSpace(constraint0)
             operator == comparisonOperator(constraint)
             parts == Split(constraint, operator)
         IN IF operator = <<>> THEN Some(txtUnsupportedOp \o constraint)
            ELSE IF Len(parts) /= 2 THEN Some(txtInvalidFormat \o constraint)
            ELSE LET leftSide == TrimSpace(parts[1])
                     rightSide == TrimSpace(parts[2])
                     leftValue == evaluateExpression(data, leftSide)
                     rightValue == evaluateExpression(data, rightSide)
                     holds == CASE operator = <<">", "=">> -> leftValue >= rightValue
                                [] operator = <<"<", "=">> -> leftValue <= rightValue
                                [] operator = <<">">> -> leftValue > rightValue
                                [] OTHER -> leftValue < rightValue
                 IN IF holds THEN None
                    ELSE Some(txtConstraintViolation \o leftSide \o <<" ", "(">>
                              \o FormatF(leftValue) \o txtShouldBe \o operator \o <<" ">>
                              \o rightSide \o <<" ", "(">> \o FormatF(rightValue) \o <<")">>)

\* the name of a rule kind as text, for the message of an unknown kind
KindText(kind) == <<kind>>

\* validateCrossFieldRule
validateCrossFieldRule(data, rule) ==
    CASE rule.Rule = "date_ordering" -> validateDateOrdering(data, rule.Fields)
      [] rule.Rule = "amount_range" -> validateAmountRange(data, rule.Fields)
      [] rule.Rule = "comparison" -> validateComparison(data, rule.Fields, rule.Constraint)
      [] rule.Rule = "conditional_required" -> validateConditionalRequired(data, rule.Fields)
      [] rule.Rule = "mutual_exclusion" -> validateMutualExclusion(data, rule.Fields)
      [] rule.Rule = "sum_constraint" -> validateSumConstraint(data, rule.Fields)
      [] OTHER -> Some(txtUnknownRuleType \o KindText(rule.Rule))

\* ValidateRecord, lines 848-850: what the result of one rule appends to errors
ruleErrors(rule, err) ==
    IF IsSome(err)
    THEN <<txtCrossFieldRule \o rule.Name \o txtFailed \o Get(err)>>
    ELSE <<>>

RECURSIVE ValidateFromFirstOnly(_, _, _)
\* a validation loop that returns at the first rule that fails
ValidateFromFirstOnly(rules, data, i) ==
    IF i > Len(rules) THEN <<>>
    ELSE IF ruleErrors(rules[i], validateCrossFieldRule(data, rules[i])) /= <<>>
    THEN ruleErrors(rules[i], validateCrossFieldRule(data, rules[i]))
    ELSE ValidateFromFirstOnly(rules, data, i + 1)

RECURSIVE ValidateFrom(_, _, _)
\* ValidateRecord, lines 847-851: the loop over the rules from position i
ValidateFrom(rules, data, i) ==
    IF i > Len(rules) THEN <<>>
    ELSE ruleErrors(rules[i], validateCrossFieldRule(data, rules[i]))
         \o ValidateFrom(rules, data, i + 1)

\* ValidateRecord: Parser.Validate returns nil, so only the rules report
ValidateRecord(rules, data) == ValidateFrom(rules, data, 1)

\* a violation test that takes every rule for violated
ruleViolatedAlways(errors, ruleName) == TRUE

\* ruleViolated
ruleViolated(errors, ruleName) ==
    \E i \in 1..Len(errors) : Contains(errors[i], txtRuleQuote \o ruleName \o <<"'">>)

\* adjustField: [err, data]
adjustField(data, patch) ==
    LET currentVal == getNumericValue(data, patch.Target)
    IN IF IsSome(patch.Params.adjustment)
       THEN [err |-> FALSE,
             data |-> MapSet(data, patch.Target,
                             Float64Value(currentVal + Get(patch.Params.adjustment)))]
       ELSE IF IsSome(patch.Params.factor)
       THEN [err |-> FALSE,
             data |-> MapSet(data, patch.Target,
                             Float64Value(TruncDiv(currentVal * Get(patch.Params.factor),
                                                   FloatScale)))]
       ELSE [err |-> TRUE, data |-> data]

\* applyPatch: [err, data], data being the map after the call
applyPatch(data, patch) ==
    CASE patch.Strategy = "set_value" ->
            [err |-> FALSE, data |-> MapSet(data, patch.Target, patch.Value)]
      [] patch.Strategy = "adjust_field" -> adjustField(data, patch)
      [] patch.Strategy = "remove_field" ->
            [err |-> FALSE, data |-> MapDelete(data, patch.Target)]
      [] OTHER -> [err |-> TRUE, data |-> data]

RECURSIVE PatchFrom(_, _, _, _)
RECURSIVE patchNext(_, _, _, _)
\* PatchRecord, lines 864-870: the loop over the rules from position i, on the
\* map patched
PatchFrom(rules, patched, errors, i) ==
    IF i > Len(rules) THEN [err |-> FALSE, data |-> patched]
    ELSE IF IsSome(rules[i].Patch) /\ ruleViolated(errors, rules[i].Name)
    THEN patchNext(rules, applyPatch(patched, Get(rules[i].Patch)), errors, i)
    ELSE PatchFrom(rules, patched, errors, i + 1)

\* PatchRecord, lines 866-868: after applyPatch gave r for rule i
patchNext(rules, r, errors, i) ==
    IF r.err THEN r ELSE PatchFrom(rules, r.data, errors, i + 1)

\* PatchRecord, lines 866-872: what is returned once the loop ended with r, the
\* caller's map being orig
patchResult(r, orig) ==
    [err |-> r.err, ret |-> IF r.err THEN None ELSE Some(r.data), orig |-> orig]

\* PatchRecord that patches the caller's map instead of a copy of it
PatchRecordInPlace(rules, data, errors) ==
    patchResult(PatchFrom(rules, data, errors, 1), PatchFrom(rules, data, errors, 1).data)

\* PatchRecord: the patches go to a copy of the caller's map.  [err, ret, orig]:
\* the error, the returned map (nil on error) and the caller's map after the call.
PatchRecord(rules, data, errors) == patchResult(PatchFrom(rules, data, errors, 1), data)

\* a record that drops the messages of the validation once the patch went
\* through
recordAfterPatchCleared(errors, p) ==
    [Data |-> IF p.err THEN p.orig ELSE Get(p.ret),
     LLMEnhanced |-> FALSE,
     ValidationErrors |-> IF p.err THEN errors ELSE <<>>,
     Patched |-> ~p.err]

\* generateRecord, lines 267-271: the record after the call of PatchRecord gave p
recordAfterPatch(errors, p) ==
    [Data |-> IF p.err THEN p.orig ELSE Get(p.ret),
     LLMEnhanced |-> FALSE,
     ValidationErrors |-> errors,
     Patched |-> ~p.err]

\* generateRecord, lines 263-272: the record once ValidateRecord gave errors
recordAfterValidation(rules, data, errors) ==
    IF Len(errors) > 0
    THEN recordAfterPatch(errors, PatchRecord(rules, data, errors))
    ELSE [Data |-> data, LLMEnhanced |-> FALSE, ValidationErrors |-> <<>>,
          Patched |-> FALSE]

\* generateRecord, lines 262-274, on the record data of lines 213-260
validateAndPatch(rules, data) ==
    recordAfterValidation(rules, data, ValidateRecord(rules, data))

(***************************************************************************)
(* SpecVal: the validation step of generateRecord on a record and a rule   *)
(* list, and a caller's re-run of ValidateRecord on the result             *)
(***************************************************************************)

\* longest rule list of Validator.rules
MaxRules == 2

nameD == <<"d">>
nameS == <<"s">>
nameT == <<"t">>

NoParams == [adjustment |-> None, factor |-> None]

Rule(name, kind, fields) ==
    [Name |-> name, Description |-> <<>>, Fields |-> fields, Rule |-> kind,
     Severity |-> "error", Constraint |-> <<>>, Patch |-> None]

PatchRule(strategy, target) ==
    [Strategy |-> strategy, Target |-> target, Value |-> NilValue, Params |-> NoParams]

RulePool ==
    { [Rule(<<"c","m","p">>, "comparison", <<nameA, nameB>>)
         EXCEPT !.Constraint = <<"a","<","b">>,
                !.Patch = Some(PatchRule("remove_field", nameD))],
      [Rule(<<"c","o","n","d">>, "conditional_required", <<nameA, nameD>>)
         EXCEPT !.Patch = Some(PatchRule("remove_field", nameD))],
      Rule(<<"c","u","s","t","o","m">>, "custom_check", <<nameA>>),
      [Rule(<<"b","o","g","u","s">>, "checksum", <<>>)
         EXCEPT !.Patch = Some(PatchRule("adjust_field", nameA))],
      [Rule(<<"a","r","i","t","y">>, "amount_range", <<nameA, nameB>>)
         EXCEPT !.Patch = Some(PatchRule("replace", nameA))],
      [Rule(<<"r","a","n","g","e">>, "amount_range", <<nameA, nameB, nameC>>)
         EXCEPT !.Patch = Some([PatchRule("set_value", nameA)
                                  EXCEPT !.Value = Float64Value(F(2))])],
      [Rule(<<"s","u","m">>, "sum_constraint", <<nameA, nameB, nameC>>)
         EXCEPT !.Patch = Some([PatchRule("adjust_field", nameC)
                                  EXCEPT !.Params.adjustment = Some(F(1))])],
      [Rule(<<"s","c","a","l","e">>, "comparison", <<nameA, nameB, nameC>>)
         EXCEPT !.Constraint = <<"a"," ","+"," ","b"," ",">","="," ","c">>,
                !.Patch = Some([PatchRule("adjust_field", nameA)
                                  EXCEPT !.Params.factor = Some(F(2))])],
      [Rule(<<"m","u","t","e","x">>, "mutual_exclusion", <<nameA, nameD>>)
         EXCEPT !.Patch = Some(PatchRule("remove_field", nameD))],
      [Rule(<<"d","a","t","e">>, "date_ordering", <<nameS, nameT>>)
         EXCEPT !.Patch = Some([PatchRule("set_value", nameT)
                                  EXCEPT !.Value = StringValue(<<"2","0","2","5">>)])] }

RecordPool ==
    { (nameA :> Int64Value(5)) @@ (nameB :> Int64Value(3)) @@ (nameD :> BoolValue(TRUE)),
      (nameA :> Float64Value(F(1))) @@ (nameB :> Float64Value(F(2)))
          @@ (nameC :> Float64Value(F(3))),
      (nameA :> Int64Value(0)) @@ (nameC :> StringValue(<<"1","2">>)),
      (nameS :> StringValue(<<"2","0","2","4">>)) @@ (nameT :> StringValue(<<"2","0","2","3">>))
          @@ (nameA :> Int64Value(2)),
      (nameA :> Int64Value(5)) @@ (nameB :> Int64Value(9)) @@ (nameC :> Int64Value(7))
          @@ (nameD :> NilValue),
      <<>> }

\* the rule lists: up to MaxRules rules of the pool, each at most once
RECURSIVE RuleListsOfLen(_)
RuleListsOfLen(n) ==
    IF n = 0 THEN {<<>>}
    ELSE UNION { { Append(rs, r) : r \in RulePool \ { rs[i] : i \in 1..Len(rs) } }
                 : rs \in RuleListsOfLen(n - 1) }

RuleLists == UNION { RuleListsOfLen(n) : n \in 1..MaxRules }

ValInit ==
    /\ vRules \in RuleLists
    /\ vData \in RecordPool
    /\ vRec = None /\ vPc = "idle" /\ vAfter = None
    /\ GenIdle /\ ParseIdle /\ PipeIdle /\ AuxIdle

\* generateRecord, lines 262-274
ValidateStep ==
    /\ vPc = "idle"
    /\ vRec' = Some(validateAndPatch(vRules, vData))
    /\ vPc' = "done"
    /\ UNCHANGED <<vRules, vData, vAfter, genVars, parseVars, pipeVars, auxVars>>

\* a caller runs ValidateRecord once more, on the record generateRecord returned
Revalidate ==
    /\ vPc = "done"
    /\ vAfter' = Some(ValidateRecord(vRules, Get(vRec).Data))
    /\ vPc' = "revalidated"
    /\ UNCHANGED <<vRules, vData, vRec, genVars, parseVars, pipeVars, auxVars>>

ValNext == ValidateStep \/ Revalidate

SpecVal == ValInit /\ [][ValNext]_vars

(***************************************************************************)
(* Claims on the validation step                                           *)
(***************************************************************************)

RECURSIVE SameValue(_, _)
\* two values are equal: the same dynamic type and the same content
SameValue(a, b) ==
    /\ a.t = b.t
    /\ CASE a.t = "array" ->
              /\ Len(a.v) = Len(b.v)
              /\ \A i \in 1..Len(a.v) : SameValue(a.v[i], b.v[i])
         [] a.t = "object" ->
              /\ DOMAIN a.v = DOMAIN b.v
              /\ \A k \in DOMAIN a.v : SameValue(a.v[k], b.v[k])
         [] OTHER -> a.v = b.v

\* two records hold the same keys with equal values
SameData(m1, m2) ==
    /\ DOMAIN m1 = DOMAIN m2
    /\ \A k \in DOMAIN m1 : SameValue(m1[k], m2[k])

\* rule i of the list fails on the record as generated
Fails(i) == IsSome(validateCrossFieldRule(vData, vRules[i]))

\* the positions of the rules that fail on the record as generated
Failing == { i \in 1..Len(vRules) : Fails(i) }

\* a patch applyPatch rejects: an unknown strategy, or adjust_field with neither
\* an adjustment nor a factor
Rejected(patch) ==
    \/ patch.Strategy \notin {"set_value", "adjust_field", "remove_field"}
    \/ /\ patch.Strategy = "adjust_field"
       /\ ~IsSome(patch.Params.adjustment)
       /\ ~IsSome(patch.Params.factor)

\* some failing rule of the list carries a patch that applyPatch rejects
PatchFails ==
    \E i \in Failing : IsSome(vRules[i].Patch) /\ Rejected(Get(vRules[i].Patch))

\* C7: when the patch of some violated rule is rejected, the record that
\* generateRecord returns holds the data as they were before patching (nothing
\* is left of the patches of earlier rules), is not marked patched, and keeps
\* the messages of the validation.
C7_FailedPatchKeepsRecord ==
    (vPc /= "idle" /\ PatchFails) =>
        /\ SameData(Get(vRec).Data, vData)
        /\ ~Get(vRec).Patched
        /\ Len(Get(vRec).ValidationErrors) = Cardinality(Failing)
        /\ Len(Get(vRec).ValidationErrors) > 0

\* C7 witness: a rejected patch that comes after the accepted patch of an earlier
\* violated rule, a patch that would have changed the record
C7_Witness ==
    /\ vPc = "done"
    /\ \E i, j \in Failing :
          /\ i < j
          /\ IsSome(vRules[i].Patch) /\ ~Rejected(Get(vRules[i].Patch))
          /\ ~SameData(applyPatch(vData, Get(vRules[i].Patch)).data, vData)
          /\ IsSome(vRules[j].Patch) /\ Rejected(Get(vRules[j].Patch))
    /\ SameData(Get(vRec).Data, vData)
    /\ ~Get(vRec).Patched

ReadsField(rule, field) == InSeq(field, rule.Fields) \/ Contains(rule.Constraint, field)

\* no patch of a failing rule targets a field that a passing rule reads
PatchesSpareSatisfiedRules ==
    \A i \in Failing : \A j \in (1..Len(vRules)) \ Failing :
        IsSome(vRules[i].Patch) => ~ReadsField(vRules[j], Get(vRules[i].Patch).Target)

KthFailing(k) == CHOOSE i \in Failing : Cardinality({ j \in Failing : j <= i }) = k

\* C9: ValidateRecord returns one message for each rule of the list that is
\* violated or cannot be evaluated, in list order, whatever the earlier rules
\* gave; the validated record is the one returned when nothing was patched.
C9_EveryRuleEvaluatedInOrder ==
    vPc /= "idle" =>
        LET errors == Get(vRec).ValidationErrors
        IN /\ Len(errors) = Cardinality(Failing)
           /\ \A k \in 1..Len(errors) :
                 errors[k] = txtCrossFieldRule \o vRules[KthFailing(k)].Name \o txtFailed
                               \o Get(validateCrossFieldRule(vData, vRules[KthFailing(k)]))
           /\ (~Get(vRec).Patched => SameData(Get(vRec).Data, vData))

\* C9 witness: a rule of an unknown kind or with the wrong number of fields
\* fails first and a later rule is still evaluated and reported
C9_Witness ==
    /\ vPc = "done"
    /\ Len(vRules) >= 2
    /\ \/ vRules[1].Rule \notin {"date_ordering", "amount_range", "comparison",
                                 "conditional_required", "mutual_exclusion",
                                 "sum_constraint"}
       \/ vRules[1].Rule = "amount_range" /\ Len(vRules[1].Fields) /= 3
    /\ Len(Get(vRec).ValidationErrors) >= 2
    /\ Contains(Get(vRec).ValidationErrors[2], vRules[2].Name)

(***************************************************************************)
(* SpecParse: a schema document with x-cross-field-rules is parsed, the    *)
(* validator is built from it and a record is generated and validated      *)
(***************************************************************************)

nameQ == <<"q">>

RawPatch(strategy, target) ==
    [strategy |-> strategy, target |-> target, value |-> NilValue, params |-> NoParams]

RawRule(name, kind, fields) ==
    [EmptyRawRule EXCEPT !.name = Some(name), !.rule = Some(kind),
                         !.fields = Some(fields), !.severity = Some("error")]

rawMutex ==
    [RawRule(<<"m","u","t","e","x">>, "mutual_exclusion", <<nameA, nameB>>)
       EXCEPT !.patch = Some(RawPatch("remove_field", nameB))]

rawSum ==
    [RawRule(<<"s","u","m">>, "sum_constraint", <<nameA, nameB>>)
       EXCEPT !.patch = Some([RawPatch("adjust_field", nameB)
                                EXCEPT !.params.factor = Some(F(0))])]

rawCond ==
    RawRule(<<"c","o","n","d">>, "conditional_required", <<nameA, nameD>>)

rawCmp ==
    [RawRule(<<"c","m","p">>, "comparison", <<nameA, nameB>>)
       EXCEPT !.constraint = Some(<<"a", "<", "=", "b">>),
              !.patch = Some(RawPatch("remove_field", nameA))]

RawRulePool == {rawMutex, rawSum, rawCond}

\* the rule lists declared on the root: up to two rules of the pool
RootRuleLists ==
    {None} \cup { Some(<<r>>) : r \in RawRulePool }
           \cup UNION { { Some(<<r, q>>) : q \in RawRulePool \ {r} } : r \in RawRulePool }

posInt == [Typed("integer") EXCEPT !.minimum = Some(F(1)), !.maximum = Some(F(9))]

\* the nested properties of the document: none, one object with a rule, or two
NestedProps ==
    { <<>>,
      (nameO :> [Object((nameA :> smallInt), None) EXCEPT !.xrules = Some(<<rawCmp>>)]),
      (nameO :> [Object((nameA :> smallInt), None) EXCEPT !.xrules = Some(<<rawCmp>>)])
        @@ (nameQ :> [Typed("array") EXCEPT
                        !.items = Some([smallInt EXCEPT !.xrules = Some(<<rawCond>>)]),
                        !.maxItems = Some(F(1))]) }

ParseSchemas ==
    { [Object((nameA :> posInt) @@ (nameB :> posInt) @@ nested,
              Some(<<nameA, nameB>> \o
                   [i \in 1..Cardinality(DOMAIN nested) |->
                      IF i = 1 THEN nameO ELSE nameQ]))
         EXCEPT !.xrules = rules]
      : rules \in RootRuleLists, nested \in NestedProps }

ParseInit ==
    /\ pRaw \in ParseSchemas
    /\ pNode = None /\ pRules = None /\ pData = None /\ pRec = None
    /\ GenIdle /\ ValIdle /\ PipeIdle /\ AuxIdle

\* generator.New, lines 48-55: the schema is loaded and its root node built
ParseSchema ==
    /\ pNode = None
    /\ pNode' = Some(GetRootNode(pRaw))
    /\ UNCHANGED <<pRaw, pRules, pData, pRec, genVars, valVars, pipeVars, auxVars>>

\* validator.New: the rules are collected from the schema tree
NewValidator ==
    /\ IsSome(pNode) /\ pRules = None
    /\ \E rules \in GetCrossFieldRules(Get(pNode)) : pRules' = Some(rules)
    /\ UNCHANGED <<pRaw, pNode, pData, pRec, genVars, valVars, pipeVars, auxVars>>

\* generateRecord with the LLM off, for some base seed and record index
GenerateRecord ==
    /\ IsSome(pRules) /\ pRec = None
    /\ \E seed \in BaseSeeds, index \in 0..MaxRecordIndex :
         \E o \in GenerateValue(seed, Get(pNode), index) :
            /\ o.st = "ok"
            /\ pData' = Some(o.val.v)
            /\ pRec' = Some(validateAndPatch(Get(pRules), o.val.v))
    /\ UNCHANGED <<pRaw, pNode, pRules, genVars, valVars, pipeVars, auxVars>>

ParseNext == ParseSchema \/ NewValidator \/ GenerateRecord

SpecParse == ParseInit /\ [][ParseNext]_vars

RECURSIVE RawRules(_)
\* the rule objects declared anywhere in a document
RawRules(raw) ==
    (IF IsSome(raw.xrules) THEN { Get(raw.xrules)[i] : i \in 1..Len(Get(raw.xrules)) }
     ELSE {})
    \cup (IF IsSome(raw.properties)
          THEN UNION { RawRules(Get(raw.properties)[name])
                       : name \in DOMAIN Get(raw.properties) }
          ELSE {})
    \cup (IF IsSome(raw.items) THEN RawRules(Get(raw.items)) ELSE {})

\* the PatchRule a declared patch object stands for
DeclaredPatchRule(rawPatch) ==
    [Strategy |-> rawPatch.strategy, Target |-> rawPatch.target,
     Value |-> rawPatch.value, Params |-> rawPatch.params]

\* the patch the document declares for the rule of this name (or none)
DeclaredPatch(name) ==
    LET r == CHOOSE r \in RawRules(pRaw) : r.name = Some(name)
    IN IF IsSome(r.patch) THEN Some(DeclaredPatchRule(Get(r.patch))) ELSE None

\* the loaded rules, each with the patch the document declares for it
WithDeclaredPatches(rules) ==
    [i \in 1..Len(rules) |-> [rules[i] EXCEPT !.Patch = DeclaredPatch(rules[i].Name)]]

\* C10: every rule declared with a patch object is loaded with that patch
\* (strategy, target, value, params), and a generated record for which such a
\* rule is violated comes out of generateRecord with the declared patch applied.
C10_DeclaredPatchLoadedAndApplied ==
    /\ IsSome(pRules) =>
          \A i \in 1..Len(Get(pRules)) :
              Get(pRules)[i].Patch = DeclaredPatch(Get(pRules)[i].Name)
    /\ IsSome(pRec) =>
          SameData(Get(pRec).Data,
                   validateAndPatch(WithDeclaredPatches(Get(pRules)), Get(pData)).Data)

(***************************************************************************)
(* Spec: Generator.Generate with the LLM off.  The index sender, the       *)
(* generation workers, the result collector and Generate itself run        *)
(* concurrently; every action is one step of one of them.                  *)
(***************************************************************************)

\* largest config.Generation.Count
MaxCount == 2
\* largest config.Generation.Workers (config.go makes it at least 1)
MaxWorkers == 2

\* the schema documents a run may be configured with
PipeSchemas ==
    << Object((nameA :> posInt) @@ (nameB :> posInt), Some(<<nameA, nameB>>)),
       [Object((nameA :> posInt) @@ (nameB :> posInt), Some(<<nameA, nameB>>))
          EXCEPT !.xrules = Some(<<rawMutex>>)],
       twoOptional,
       Object((nameA :> [Typed("string") EXCEPT !.minLength = Some(F(30))]),
              Some(<<nameA>>)) >>

\* the root node Generate gets from the parser
rootNode == GetRootNode(PipeSchemas[schemaId])

\* generateRecord, lines 212-274, once GenerateValue gave the outcome o: the
\* record, or the failure.  [st, rec]; a value that is no map fails the type
\* assertion of line 213.
recordOutcome(rules, o) ==
    IF o.st = "ok" /\ o.val.t = "object"
    THEN [st |-> "ok", rec |-> Some(validateAndPatch(rules, o.val.v))]
    ELSE [st |-> IF o.st = "err" THEN "err" ELSE "panic", rec |-> None]

\* generateRecord with the LLM off: the set of its possible outcomes
generateRecord(baseSeed, node, rules, recordIndex) ==
    { recordOutcome(rules, o) : o \in GenerateValue(baseSeed, node, recordIndex) }

EmptyResult ==
    [RecordCount |-> 0, LLMCallCount |-> 0, ValidationErrors |-> 0, PatchedRecords |-> 0]

\* Generate, lines 107-145: the state once the channels are made and the
\* workers, the collector and the sender are started
Init ==
    /\ schemaId \in 1..Len(PipeSchemas)
    /\ cfgSeed \in BaseSeeds
    /\ workers \in 1..MaxWorkers
    /\ count \in 0..MaxCount
    /\ pipeRules \in GetCrossFieldRules(GetRootNode(PipeSchemas[schemaId]))
    /\ cancelled = FALSE
    /\ gpc = "wait_workers"
    /\ sent = 0 /\ senderDone = FALSE
    /\ recordChan = <<>> /\ resultChan = <<>> /\ resultClosed = FALSE
    /\ wpc = [w \in 1..workers |-> "receive"]
    /\ wIdx = [w \in 1..workers |-> 0]
    /\ wRec = [w \in 1..workers |-> None]
    /\ records = <<>> /\ result = EmptyResult /\ collectorDone = FALSE
    /\ written = None /\ manifest = None
    /\ GenIdle /\ ValIdle /\ ParseIdle /\ AuxIdle

\* the process is alive: no goroutine has panicked
Alive == gpc \notin {"idle", "panic"}

configVars == <<schemaId, cfgSeed, workers, count, pipeRules>>
senderVars == <<sent, senderDone>>
workerVars == <<wpc, wIdx, wRec>>
collectorVars == <<records, result, collectorDone>>
otherVars == <<genVars, valVars, parseVars, auxVars>>

\* the caller cancels ctx
Cancel ==
    /\ Alive /\ gpc /= "done" /\ ~cancelled
    /\ cancelled' = TRUE
    /\ UNCHANGED <<configVars, gpc, senderVars, recordChan, resultChan, resultClosed,
                   workerVars, collectorVars, written, manifest, otherVars>>

\* sender goroutine, line 140: recordChan <- i
SenderSend ==
    /\ Alive /\ ~senderDone /\ sent < count
    /\ Len(recordChan) < workers
    /\ recordChan' = Append(recordChan, sent)
    /\ sent' = sent + 1
    /\ UNCHANGED <<configVars, cancelled, gpc, senderDone, resultChan, resultClosed,
                   workerVars, collectorVars, written, manifest, otherVars>>

\* sender goroutine, lines 141-142 and 137: <-ctx.Done(), return, close
SenderCancelled ==
    /\ Alive /\ ~senderDone /\ sent < count /\ cancelled
    /\ senderDone' = TRUE
    /\ UNCHANGED <<configVars, cancelled, gpc, sent, recordChan, resultChan, resultClosed,
                   workerVars, collectorVars, written, manifest, otherVars>>

\* sender goroutine, line 137: the loop is over, close(recordChan)
SenderClose ==
    /\ Alive /\ ~senderDone /\ sent = count
    /\ senderDone' = TRUE
    /\ UNCHANGED <<configVars, cancelled, gpc, sent, recordChan, resultChan, resultClosed,
                   workerVars, collectorVars, written, manifest, otherVars>>

\* generationWorker, line 188: the range receives an index
WorkerReceive ==
    \E w \in 1..workers :
        /\ Alive /\ wpc[w] = "receive" /\ recordChan /= <<>>
        /\ wIdx' = [wIdx EXCEPT ![w] = Head(recordChan)]
        /\ recordChan' = Tail(recordChan)
        /\ wpc' = [wpc EXCEPT ![w] = "check"]
        /\ UNCHANGED <<configVars, cancelled, gpc, senderVars, resultChan, resultClosed, wRec,
                       collectorVars, written, manifest, otherVars>>

\* generationWorker, lines 188 and 186: recordChan is closed and drained, wg.Done
WorkerExit ==
    \E w \in 1..workers :
        /\ Alive /\ wpc[w] = "receive" /\ recordChan = <<>> /\ senderDone
        /\ wpc' = [wpc EXCEPT ![w] = "done"]
        /\ UNCHANGED <<configVars, cancelled, gpc, senderVars, recordChan, resultChan,
                       resultClosed, wIdx, wRec, collectorVars, written, manifest, otherVars>>

\* a worker that does not look at ctx between two records
WorkerCheckIgnoringCtx ==
    \E w \in 1..workers :
        /\ Alive /\ wpc[w] = "check"
        /\ wpc' = [wpc EXCEPT ![w] = "generate"]
        /\ UNCHANGED <<configVars, cancelled, gpc, senderVars, recordChan, resultChan,
                       resultClosed, wIdx, wRec, collectorVars, written, manifest, otherVars>>

\* generationWorker, lines 189-193: return when ctx is done, else go on
WorkerCheck ==
    \E w \in 1..workers :
        /\ Alive /\ wpc[w] = "check"
        /\ wpc' = [wpc EXCEPT ![w] = IF cancelled THEN "done" ELSE "generate"]
        /\ UNCHANGED <<configVars, cancelled, gpc, senderVars, recordChan, resultChan,
                       resultClosed, wIdx, wRec, collectorVars, written, manifest, otherVars>>

\* generationWorker, lines 195-199: generateRecord; on an error the worker goes on
\* with the next index, and a panic ends the process
WorkerGenerate ==
    \E w \in 1..workers :
        /\ Alive /\ wpc[w] = "generate"
        /\ \E r \in generateRecord(cfgSeed, rootNode, pipeRules, wIdx[w]) :
              /\ wRec' = [wRec EXCEPT ![w] = r.rec]
              /\ wpc' = [wpc EXCEPT ![w] = IF r.st = "ok" THEN "send" ELSE "receive"]
              /\ gpc' = IF r.st = "panic" THEN "panic" ELSE gpc
        /\ UNCHANGED <<configVars, cancelled, senderVars, recordChan, resultChan, resultClosed,
                       wIdx, collectorVars, written, manifest, otherVars>>

\* a worker whose send does not wait: the record is dropped when resultChan
\* is full
WorkerSendOrDrop ==
    \E w \in 1..workers :
        /\ Alive /\ wpc[w] = "send"
        /\ resultChan' = (IF Len(resultChan) < workers
                          THEN Append(resultChan, Get(wRec[w])) ELSE resultChan)
        /\ wRec' = [wRec EXCEPT ![w] = None]
        /\ wpc' = [wpc EXCEPT ![w] = "receive"]
        /\ UNCHANGED <<configVars, cancelled, gpc, senderVars, recordChan, resultClosed, wIdx,
                       collectorVars, written, manifest, otherVars>>

\* generationWorker, line 201: resultChan <- record
WorkerSend ==
    \E w \in 1..workers :
        /\ Alive /\ wpc[w] = "send" /\ Len(resultChan) < workers
        /\ resultChan' = Append(resultChan, Get(wRec[w]))
        /\ wRec' = [wRec EXCEPT ![w] = None]
        /\ wpc' = [wpc EXCEPT ![w] = "receive"]
        /\ UNCHANGED <<configVars, cancelled, gpc, senderVars, recordChan, resultClosed, wIdx,
                       collectorVars, written, manifest, otherVars>>

\* a collector that stops receiving once ctx is done
CollectorReceiveUntilCancelled ==
    /\ Alive /\ ~collectorDone /\ resultChan /= <<>> /\ ~cancelled
    /\ records' = Append(records, Head(resultChan).Data)
    /\ result' =
         [result EXCEPT
            !.LLMCallCount = @ + (IF Head(resultChan).LLMEnhanced THEN 1 ELSE 0),
            !.ValidationErrors =
                @ + (IF Len(Head(resultChan).ValidationErrors) > 0 THEN 1 ELSE 0),
            !.PatchedRecords = @ + (IF Head(resultChan).Patched THEN 1 ELSE 0)]
    /\ resultChan' = Tail(resultChan)
    /\ UNCHANGED <<configVars, cancelled, gpc, senderVars, recordChan, resultClosed,
                   workerVars, collectorDone, written, manifest, otherVars>>

\* resultCollector, lines 357-368: one record is received and counted
CollectorReceive ==
    /\ Alive /\ ~collectorDone /\ resultChan /= <<>>
    /\ records' = Append(records, Head(resultChan).Data)
    /\ result' =
         [result EXCEPT
            !.LLMCallCount = @ + (IF Head(resultChan).LLMEnhanced THEN 1 ELSE 0),
            !.ValidationErrors =
                @ + (IF Len(Head(resultChan).ValidationErrors) > 0 THEN 1 ELSE 0),
            !.PatchedRecords = @ + (IF Head(resultChan).Patched THEN 1 ELSE 0)]
    /\ resultChan' = Tail(resultChan)
    /\ UNCHANGED <<configVars, cancelled, gpc, senderVars, recordChan, resultClosed,
                   workerVars, collectorDone, written, manifest, otherVars>>

\* resultCollector, lines 357 and 355: resultChan is closed and drained, wg.Done
CollectorExit ==
    /\ Alive /\ ~collectorDone /\ resultChan = <<>> /\ resultClosed
    /\ collectorDone' = TRUE
    /\ UNCHANGED <<configVars, cancelled, gpc, senderVars, recordChan, resultChan,
                   resultClosed, workerVars, records, result, written, manifest, otherVars>>

\* Generate, lines 148-149: wg.Wait returns, close(resultChan)
GenerateCloseResults ==
    /\ gpc = "wait_workers"
    /\ \A w \in 1..workers : wpc[w] = "done"
    /\ resultClosed' = TRUE
    /\ gpc' = "wait_collector"
    /\ UNCHANGED <<configVars, cancelled, senderVars, recordChan, resultChan, workerVars,
                   collectorVars, written, manifest, otherVars>>

\* a Generate that hands records to the writer without collectorWg.Wait
GenerateWriteUnsynchronised ==
    /\ gpc = "wait_collector"
    /\ written' = Some(records)
    /\ gpc' = "manifest"
    /\ UNCHANGED <<configVars, cancelled, senderVars, recordChan, resultChan, resultClosed,
                   workerVars, collectorVars, manifest, otherVars>>

\* Generate, lines 150-155: collectorWg.Wait returns, WriteRecords(records)
GenerateWrite ==
    /\ gpc = "wait_collector" /\ collectorDone
    /\ written' = Some(records)
    /\ gpc' = "manifest"
    /\ UNCHANGED <<configVars, cancelled, senderVars, recordChan, resultChan, resultClosed,
                   workerVars, collectorVars, manifest, otherVars>>

\* createManifest: the counters of result as they are when it is called
createManifest(res) ==
    [record_count |-> res.RecordCount, llm_calls |-> res.LLMCallCount,
     validation_errors |-> res.ValidationErrors, patched_records |-> res.PatchedRecords]

\* Generate, lines 158-173: the manifest is made and written, then RecordCount
\* is set and the result returned
GenerateFinish ==
    /\ gpc = "manifest"
    /\ manifest' = Some(createManifest(result))
    /\ result' = [result EXCEPT !.RecordCount = Len(records)]
    /\ gpc' = "done"
    /\ UNCHANGED <<configVars, cancelled, senderVars, recordChan, resultChan, resultClosed,
                   workerVars, records, collectorDone, written, otherVars>>

Next ==
    \/ Cancel
    \/ SenderSend \/ SenderCancelled \/ SenderClose
    \/ WorkerReceive \/ WorkerExit \/ WorkerCheck \/ WorkerGenerate \/ WorkerSend
    \/ CollectorReceive \/ CollectorExit
    \/ GenerateCloseResults \/ GenerateWrite \/ GenerateFinish

Spec == Init /\ [][Next]_vars

(***************************************************************************)
(* Claims on Generate                                                      *)
(***************************************************************************)

\* GenerateValue has one outcome for every index of the run, and it is a record
Reproducible ==
    \A i \in 0..(count - 1) :
        \A r \in generateRecord(cfgSeed, rootNode, pipeRules, i) :
            /\ r.st = "ok"
            /\ \A q \in generateRecord(cfgSeed, rootNode, pipeRules, i) :
                  SameData(Get(q.rec).Data, Get(r.rec).Data)

\* the record data generateRecord gives for an index
RecordDataOf(i) ==
    Get((CHOOSE r \in generateRecord(cfgSeed, rootNode, pipeRules, i) : TRUE).rec).Data

\* C2: for the same schema, cfgSeed and count, a run that is not cancelled writes
\* the same sequence of records whatever the number of workers and the
\* interleaving of workers and collector: the records of the indices
\* 0..count-1, in index order.
C2_SameRecordSequenceOnEveryRun ==
    (gpc /= "idle" /\ IsSome(written) /\ ~cancelled /\ Reproducible) =>
        /\ Len(Get(written)) = count
        /\ \A k \in 1..count : SameData(Get(written)[k], RecordDataOf(k - 1))

(***************************************************************************)
(* Claims on the schema tree and on sibling properties (SpecGen)           *)
(***************************************************************************)

RECURSIVE RequiredDeclared(_)
\* every name of a required list in the tree has an entry in the properties
\* of its node
RequiredDeclared(node) ==
    /\ \A i \in 1..Len(node.Required) :
          IsSome(node.Properties) /\ node.Required[i] \in DOMAIN Get(node.Properties)
    /\ IsSome(node.Properties) =>
          \A name \in DOMAIN Get(node.Properties) :
              RequiredDeclared(Get(node.Properties)[name])
    /\ IsSome(node.Items) => RequiredDeclared(Get(node.Items))

\* C11: building the schema tree fails, before any record is generated, when a
\* required list names a property that properties does not declare: no value
\* is ever generated from a tree with such a list.  (buildNode has no failing
\* branch of its own, so a tree is what GetRootNode gives for every document.)
C11_UndeclaredRequiredRejected ==
    gOut /= <<>> => RequiredDeclared(gNode)

\* the properties that the object value val and the object value val2 both
\* hold, and that the two schemas declare with the same constraints, have
\* the same value in both
SameSharedProperties(raw, val, raw2, val2) ==
    \A name \in DOMAIN val.v \cap DOMAIN val2.v :
        Get(raw.properties)[name] = Get(raw2.properties)[name]
            => SameValue(val.v[name], val2.v[name])

\* every value generated for the object schema raw2 with the same base seed and
\* record index agrees with val on the shared properties
AgreesWithSiblingVariant(raw, val, raw2) ==
    \A o2 \in GenerateValue(gSeed, GetRootNode(raw2), gIndex) :
        (o2.st = "ok" /\ o2.val.t = "object") => SameSharedProperties(raw, val, raw2, o2.val)

\* C12: the value generated for a property of an object depends only on the
\* base seed, the property's own path and constraints and the record index:
\* a schema that differs in the sibling properties (added, removed, reordered
\* in required, other constraints) gives the property the same value.
C12_ValueIndependentOfSiblings ==
    \A i \in DOMAIN gOut : \A raw2 \in ObjectSchemas :
        (/\ gOut[i].st = "ok" /\ gOut[i].val.t = "object"
         /\ IsSome(gRaw.properties) /\ IsSome(raw2.properties))
            => AgreesWithSiblingVariant(gRaw, gOut[i].val, raw2)


(***************************************************************************)
(* Claims on the workers and the collector (checked under Spec)            *)
(***************************************************************************)

\* the record index a generatedRecord carries, if it carries one
IndexCarried(rec) ==
    IF "RecordIndex" \in DOMAIN rec THEN Some(rec.RecordIndex) ELSE None

\* C13: every record handed to the collector carries the record index it was
\* generated for: a worker that is about to push its record for index
\* wIdx[w] holds a record carrying that index, and so does every record on
\* resultChan.
C13_RecordCarriesIndex ==
    /\ \A w \in 1..workers :
          wpc[w] = "send" => IndexCarried(Get(wRec[w])) = Some(wIdx[w])
    /\ \A k \in DOMAIN resultChan : IsSome(IndexCarried(resultChan[k]))


\* C14: when generateRecord fails for a record index, the worker pushes no
\* result for it and goes on with the next index, and Generate does not fail
\* because of it: a worker that leaves generateRecord without a record is back
\* at the receive of its loop and the run is still alive.
C14_FailedRecordSkipsOnlyItself ==
    [][\A w \in 1..workers :
          (wpc[w] = "generate" /\ wpc'[w] /= "generate" /\ wpc'[w] /= "send")
              => (wpc'[w] = "receive" /\ wRec'[w] = None /\ Alive')]_vars


\* the step is one receive of the collector: the head of resultChan is
\* appended to records and counted
IsCollectorStep ==
    /\ ~collectorDone /\ resultChan /= <<>>
    /\ records' = Append(records, Head(resultChan).Data)
    /\ resultChan' = Tail(resultChan)

\* the worker-local state of the workers other than w
OthersUntouched(w) ==
    \A u \in (1..workers) \ {w} :
        wpc'[u] = wpc[u] /\ wIdx'[u] = wIdx[u] /\ wRec'[u] = wRec[u]

nameDia == <<"d", "i", "a", "s", "t", "o", "l", "i", "c">>
nameSys == <<"s", "y", "s", "t", "o", "l", "i", "c">>

\* the sides of the expressions: a field reference, or a sum of two
CmpSides == { <<nameA>>, <<nameB>>, <<nameDia>>, <<nameSys>>, <<nameA, nameB>> }

CmpOperators == { <<">", "=">>, <<"<", "=">>, <<">">>, <<"<">> }

\* the blanks written around the operator
CmpPads == { <<>>, <<" ">> }

SideText(side) == Join(side, <<" ", "+", " ">>)

\* the expression "left op right"
CmpText(left, op, pad, right) == SideText(left) \o pad \o op \o pad \o SideText(right)

\* the well-formed expressions, and three that are not: two operators, no
\* operator, an empty expression
CmpConstraints ==
    { CmpText(l, op, pad, r) : l \in CmpSides, op \in CmpOperators, pad \in CmpPads,
                               r \in CmpSides }
    \cup { <<"a", ">", "b", ">", "a">>, <<"a", "=", "b">>, <<>> }

\* the records, each with the numeric value of its fields in 1/FloatScale
CmpRecords ==
    { [data |-> (nameSys :> Int64Value(120)) @@ (nameDia :> Int64Value(80)),
       num |-> (nameSys :> 12000) @@ (nameDia :> 8000)],
      [data |-> (nameSys :> Int64Value(80)) @@ (nameDia :> Int64Value(120)),
       num |-> (nameSys :> 8000) @@ (nameDia :> 12000)],
      [data |-> (nameA :> Int64Value(5)) @@ (nameB :> Int64Value(5)),
       num |-> (nameA :> 500) @@ (nameB :> 500)],
      [data |-> (nameA :> StringValue(<<"1", "2">>)) @@ (nameB :> Float64Value(750))
                @@ (nameC :> BoolValue(TRUE)),
       num |-> (nameA :> 1200) @@ (nameB :> 750) @@ (nameC :> 0)],
      [data |-> (nameA :> BoolValue(TRUE)) @@ (nameB :> Int64Value(-1))
                @@ (nameDia :> StringValue(<<"h", "i", "g", "h">>))
                @@ (nameSys :> Int64Value(1)),
       num |-> (nameA :> 0) @@ (nameB :> -100) @@ (nameDia :> 0) @@ (nameSys :> 100)],
      [data |-> <<>>, num |-> <<>>] }

CmpInit ==
    /\ \E c \in CmpConstraints, fields \in { <<nameA, nameB>>, <<nameX, nameX, nameX>> } :
          vRules = << [Rule(<<"c", "m", "p">>, "comparison", fields)
                         EXCEPT !.Constraint = c] >>
    /\ \E r \in CmpRecords : vData = r.data
    /\ vRec = None /\ vPc = "idle" /\ vAfter = None
    /\ GenIdle /\ ParseIdle /\ PipeIdle /\ AuxIdle

SpecCmp == CmpInit /\ [][ValNext]_vars

RECURSIVE ClaimedValue(_, _)
\* the numeric value of a side: the sum of its fields, a missing field is 0
ClaimedValue(num, side) ==
    IF side = <<>> THEN 0
    ELSE (IF Head(side) \in DOMAIN num THEN num[Head(side)] ELSE 0)
         + ClaimedValue(num, Tail(side))

\* left op right on the values
ClaimedHolds(x, op, y) ==
    CASE op = <<">", "=">> -> x >= y
      [] op = <<"<", "=">> -> x <= y
      [] op = <<">">> -> x > y
      [] OTHER -> x < y

\* a violation of the rule was reported for the record
CmpViolationReported == Get(vRec).ValidationErrors /= <<>>

\* the rule of the state has the expression "left op right" and the record is r
CmpCase(l, op, pad, r, rec) ==
    /\ vRec /= None
    /\ vRules[1].Constraint = CmpText(l, op, pad, r)
    /\ SameData(vData, rec.data)

\* the violation is reported exactly when "left op right" is false
CmpViolationIffFalse ==
    \A l \in CmpSides, op \in CmpOperators, pad \in CmpPads, r \in CmpSides :
        \A rec \in CmpRecords :
            CmpCase(l, op, pad, r, rec) =>
                (CmpViolationReported
                    <=> ~ClaimedHolds(ClaimedValue(rec.num, l), op, ClaimedValue(rec.num, r)))

\* the two records of the example: "diastolic < systolic" holds for
\* {systolic: 120, diastolic: 80}, is violated by {systolic: 80, diastolic: 120}
CmpExample ==
    (vRec /= None /\ vRules[1].Constraint = CmpText(<<nameDia>>, <<"<">>, <<" ">>, <<nameSys>>)
     /\ nameSys \in DOMAIN vData /\ vData[nameSys].t = "int64"
     /\ vData[nameSys].v \in {80, 120})
        => (CmpViolationReported <=> vData[nameSys].v = 80)

\* C16: validateComparison reports a violation exactly when "left op right" is
\* false for the numeric values of the two sides, the operator being the one
\* written in the expression (found by testing >=, <=, > and < in that
\* order); a missing or non-numeric field counts as 0, and the outcome
\* depends on nothing but the expression and the record, as in the example
\* "diastolic < systolic".
C16_ComparisonViolationIffFalse == CmpViolationIffFalse /\ CmpExample

\* "systolic >= diastolic" was evaluated on {systolic: 80, diastolic: 120} and
\* the violation reported
C16_Witness ==
    /\ vRec /= None
    /\ vRules[1].Constraint = CmpText(<<nameSys>>, <<">", "=">>, <<>>, <<nameDia>>)
    /\ nameSys \in DOMAIN vData /\ vData[nameSys].t = "int64" /\ vData[nameSys].v = 80
    /\ CmpViolationReported


(***************************************************************************)
(* SpecPattern: GenerateValue on a string node with a pattern              *)
(***************************************************************************)

RECURSIVE InClass(_, _)
\* c is in the character class with the content given: ranges x-y and
\* single characters
InClass(c, content) ==
    IF content = <<>> THEN FALSE
    ELSE IF Len(content) >= 3 /\ content[2] = "-"
    THEN \/ (Ord(content[1]) <= Ord(c) /\ Ord(c) <= Ord(content[3]))
         \/ InClass(c, SubSeq(content, 4, Len(content)))
    ELSE content[1] = c \/ InClass(c, Tail(content))

\* the first position of character c in pat at or after i
PositionFrom(pat, c, i) ==
    CHOOSE k \in i..Len(pat) : pat[k] = c /\ \A j \in i..(k - 1) : pat[j] /= c

\* the atom of the regular expression at position i: an escaped character, a
\* class, a group or a character; lo..hi is its content, next what follows
AtomAt(pat, i) ==
    IF pat[i] = "bslash"
    THEN [kind |-> "char", lo |-> i + 1, hi |-> i + 1, next |-> i + 2]
    ELSE IF pat[i] = "["
    THEN [kind |-> "class", lo |-> i + 1, hi |-> PositionFrom(pat, "]", i) - 1,
          next |-> PositionFrom(pat, "]", i) + 1]
    ELSE IF pat[i] = "("
    THEN [kind |-> "group", lo |-> i + 1, hi |-> PositionFrom(pat, ")", i) - 1,
          next |-> PositionFrom(pat, ")", i) + 1]
    ELSE [kind |-> "char", lo |-> i, hi |-> i, next |-> i + 1]

\* the bounds written between the braces
BraceBounds(body, next) ==
    [min |-> DigitsValue(Split(body, <<",">>)[1], 0),
     max |-> DigitsValue(Split(body, <<",">>)[Len(Split(body, <<",">>))], 0),
     next |-> next]

\* the quantifier at position j: {n}, {n,m}, ? or none
QuantAt(pat, j) ==
    IF j <= Len(pat) /\ pat[j] = "{"
    THEN BraceBounds(SubSeq(pat, j + 1, PositionFrom(pat, "}", j) - 1),
                     PositionFrom(pat, "}", j) + 1)
    ELSE IF j <= Len(pat) /\ pat[j] = "?"
    THEN [min |-> 0, max |-> 1, next |-> j + 1]
    ELSE [min |-> 1, max |-> 1, next |-> j]

AtomChar(pat, atom, c) ==
    IF atom.kind = "class" THEN InClass(c, SubSeq(pat, atom.lo, atom.hi))
    ELSE pat[atom.lo] = c

RECURSIVE RegexEnds(_, _, _, _, _)
RECURSIVE Repeat(_, _, _, _, _)

\* the positions of s reached from the positions P by one match of the atom
AtomStep(pat, s, atom, P) ==
    IF atom.kind = "group" THEN RegexEnds(pat, atom.lo, atom.hi + 1, s, P)
    ELSE { q + 1 : q \in { p \in P : p < Len(s) /\ AtomChar(pat, atom, s[p + 1]) } }

Repeat(pat, s, atom, P, k) ==
    IF k = 0 THEN P ELSE AtomStep(pat, s, atom, Repeat(pat, s, atom, P, k - 1))

RegexAfter(pat, stop, s, atom, q, P) ==
    RegexEnds(pat, q.next, stop, s,
              UNION { Repeat(pat, s, atom, P, k) : k \in q.min..q.max })

RegexNext(pat, stop, s, atom, P) ==
    RegexAfter(pat, stop, s, atom, QuantAt(pat, atom.next), P)

\* the positions of s reached from the positions P by a match of pat[i..stop-1]
RegexEnds(pat, i, stop, s, P) ==
    IF i >= stop THEN P ELSE RegexNext(pat, stop, s, AtomAt(pat, i), P)

\* regexp.MatchString for the expressions of the table
MatchString(pat, s) ==
    IF pat[Len(pat)] = "$"
    THEN Len(s) \in RegexEnds(pat, IF pat[1] = "^" THEN 2 ELSE 1, Len(pat), s,
                              IF pat[1] = "^" THEN {0} ELSE 0..Len(s))
    ELSE RegexEnds(pat, IF pat[1] = "^" THEN 2 ELSE 1, Len(pat) + 1, s,
                   IF pat[1] = "^" THEN {0} ELSE 0..Len(s)) /= {}

TablePatterns == { patternTable[k].pattern : k \in DOMAIN patternTable }

\* patterns that are not in the table
OtherPatterns ==
    { <<"^", "[", "0", "-", "9", "]", "{", "3", "}", "$">>,
      <<"^", "[", "a", "-", "z", "]", "+", "$">>,
      <<"^", "[", "A", "-", "Z", "]", "[", "0", "-", "9", "]", "$">> }

\* the seeds 1..MaxPatternSeed, as in TestPatternGeneration_PropertyBased
MaxPatternSeed == 100

PatternSeeds == 1..MaxPatternSeed

PatternInit ==
    /\ \E pat \in TablePatterns \cup OtherPatterns :
          gRaw = [Typed("string") EXCEPT !.pattern = Some(pat)]
    /\ gSeed \in PatternSeeds
    /\ gIndex = 0
    /\ gOut = <<>>
    /\ ValIdle /\ ParseIdle /\ PipeIdle /\ AuxIdle

SpecPattern == PatternInit /\ [][GenNext]_vars

\* C17: for every pattern of the exact-match table and every seeded source the
\* string returned matches the pattern as a regular expression, and calls with
\* equally seeded sources return the same string.
C17_TableStringsMatchPattern ==
    gNode.Pattern \in TablePatterns =>
        \A i \in DOMAIN gOut :
            /\ gOut[i].st = "ok" /\ gOut[i].val.t = "string"
            /\ MatchString(gNode.Pattern, gOut[i].val.v)
            /\ \A j \in DOMAIN gOut : gOut[j].val.v = gOut[i].val.v

\* two calls have returned a ZIP+4 code
C17_Witness ==
    /\ gNode.Pattern = <<"^", "[", "0", "-", "9", "]", "{", "5", "}", "(", "-", "[", "0", "-",
                        "9", "]", "{", "4", "}", ")", "?", "$">>
    /\ Len(gOut) = 2 /\ Len(gOut[1].val.v) = 10 /\ gOut[1].val.v[6] = "-"


(***************************************************************************)
(* SpecSeed: deriveSeed called on its own                                  *)
(***************************************************************************)

\* inputs of deriveSeed, each with baseSeed XOR (FNV-1a 64 of the path bytes
\* and the four little-endian low bytes of the index, sign bit cleared),
\* computed outside the model; a 64-bit word is written as its eight bytes,
\* the low byte first
SeedVectors ==
    { [base |-> 0, path |-> <<>>, index |-> 0,
       seed |-> <<245, 19, 206, 157, 127, 118, 37, 77>>],
      [base |-> 0, path |-> <<>>, index |-> 1,
       seed |-> <<100, 87, 152, 71, 119, 202, 42, 45>>],
      [base |-> 0, path |-> <<>>, index |-> 258,
       seed |-> <<108, 142, 81, 69, 144, 83, 113, 4>>],
      [base |-> 0, path |-> <<>>, index |-> 16909060,
       seed |-> <<181, 237, 68, 54, 94, 34, 69, 51>>],
      [base |-> 0, path |-> <<"a">>, index |-> 0,
       seed |-> <<76, 203, 201, 81, 254, 209, 233, 109>>],
      [base |-> 0, path |-> <<"a">>, index |-> 1,
       seed |-> <<221, 135, 255, 167, 6, 126, 228, 13>>],
      [base |-> 0, path |-> <<"a">>, index |-> 258,
       seed |-> <<25, 67, 29, 3, 15, 165, 136, 54>>],
      [base |-> 0, path |-> <<"a">>, index |-> 16909060,
       seed |-> <<168, 153, 176, 7, 221, 93, 2, 8>>],
      [base |-> 0, path |-> <<"o", ".", "a">>, index |-> 0,
       seed |-> <<211, 252, 239, 239, 101, 60, 252, 123>>],
      [base |-> 0, path |-> <<"o", ".", "a">>, index |-> 1,
       seed |-> <<66, 64, 186, 153, 93, 144, 1, 92>>],
      [base |-> 0, path |-> <<"o", ".", "a">>, index |-> 258,
       seed |-> <<6, 133, 156, 62, 85, 105, 93, 51>>],
      [base |-> 0, path |-> <<"o", ".", "a">>, index |-> 16909060,
       seed |-> <<35, 41, 169, 77, 135, 156, 137, 4>>],
      [base |-> 0, path |-> <<"a", "[", "0", "]">>, index |-> 0,
       seed |-> <<6, 233, 26, 117, 206, 149, 159, 61>>],
      [base |-> 0, path |-> <<"a", "[", "0", "]">>, index |-> 1,
       seed |-> <<151, 165, 80, 203, 214, 65, 154, 93>>],
      [base |-> 0, path |-> <<"a", "[", "0", "]">>, index |-> 258,
       seed |-> <<143, 110, 151, 205, 189, 184, 83, 6>>],
      [base |-> 0, path |-> <<"a", "[", "0", "]">>, index |-> 16909060,
       seed |-> <<18, 48, 86, 23, 173, 157, 4, 53>>],
      [base |-> 0, path |-> <<"n", "a", "m", "e">>, index |-> 0,
       seed |-> <<230, 254, 22, 37, 47, 17, 91, 70>>],
      [base |-> 0, path |-> <<"n", "a", "m", "e">>, index |-> 1,
       seed |-> <<119, 187, 76, 123, 55, 189, 85, 102>>],
      [base |-> 0, path |-> <<"n", "a", "m", "e">>, index |-> 258,
       seed |-> <<111, 132, 147, 125, 30, 52, 15, 15>>],
      [base |-> 0, path |-> <<"n", "a", "m", "e">>, index |-> 16909060,
       seed |-> <<242, 69, 82, 199, 13, 25, 192, 61>>],
      [base |-> 12345, path |-> <<>>, index |-> 0,
       seed |-> <<204, 35, 206, 157, 127, 118, 37, 77>>],
      [base |-> 12345, path |-> <<>>, index |-> 1,
       seed |-> <<93, 103, 152, 71, 119, 202, 42, 45>>],
      [base |-> 12345, path |-> <<>>, index |-> 258,
       seed |-> <<85, 190, 81, 69, 144, 83, 113, 4>>],
      [base |-> 12345, path |-> <<>>, index |-> 16909060,
       seed |-> <<140, 221, 68, 54, 94, 34, 69, 51>>],
      [base |-> 12345, path |-> <<"a">>, index |-> 0,
       seed |-> <<117, 251, 201, 81, 254, 209, 233, 109>>],
      [base |-> 12345, path |-> <<"a">>, index |-> 1,
       seed |-> <<228, 183, 255, 167, 6, 126, 228, 13>>],
      [base |-> 12345, path |-> <<"a">>, index |-> 258,
       seed |-> <<32, 115, 29, 3, 15, 165, 136, 54>>],
      [base |-> 12345, path |-> <<"a">>, index |-> 16909060,
       seed |-> <<145, 169, 176, 7, 221, 93, 2, 8>>],
      [base |-> 12345, path |-> <<"o", ".", "a">>, index |-> 0,
       seed |-> <<234, 204, 239, 239, 101, 60, 252, 123>>],
      [base |-> 12345, path |-> <<"o", ".", "a">>, index |-> 1,
       seed |-> <<123, 112, 186, 153, 93, 144, 1, 92>>],
      [base |-> 12345, path |-> <<"o", ".", "a">>, index |-> 258,
       seed |-> <<63, 181, 156, 62, 85, 105, 93, 51>>],
      [base |-> 12345, path |-> <<"o", ".", "a">>, index |-> 16909060,
       seed |-> <<26, 25, 169, 77, 135, 156, 137, 4>>],
      [base |-> 12345, path |-> <<"a", "[", "0", "]">>, index |-> 0,
       seed |-> <<63, 217, 26, 117, 206, 149, 159, 61>>],
      [base |-> 12345, path |-> <<"a", "[", "0", "]">>, index |-> 1,
       seed |-> <<174, 149, 80, 203, 214, 65, 154, 93>>],
      [base |-> 12345, path |-> <<"a", "[", "0", "]">>, index |-> 258,
       seed |-> <<182, 94, 151, 205, 189, 184, 83, 6>>],
      [base |-> 12345, path |-> <<"a", "[", "0", "]">>, index |-> 16909060,
       seed |-> <<43, 0, 86, 23, 173, 157, 4, 53>>],
      [base |-> 12345, path |-> <<"n", "a", "m", "e">>, index |-> 0,
       seed |-> <<223, 206, 22, 37, 47, 17, 91, 70>>],
      [base |-> 12345, path |-> <<"n", "a", "m", "e">>, index |-> 1,
       seed |-> <<78, 139, 76, 123, 55, 189, 85, 102>>],
      [base |-> 12345, path |-> <<"n", "a", "m", "e">>, index |-> 258,
       seed |-> <<86, 180, 147, 125, 30, 52, 15, 15>>],
      [base |-> 12345, path |-> <<"n", "a", "m", "e">>, index |-> 16909060,
       seed |-> <<203, 117, 82, 199, 13, 25, 192, 61>>],
      [base |-> -1, path |-> <<>>, index |-> 0,
       seed |-> <<10, 236, 49, 98, 128, 137, 218, 178>>],
      [base |-> -1, path |-> <<>>, index |-> 1,
       seed |-> <<155, 168, 103, 184, 136, 53, 213, 210>>],
      [base |-> -1, path |-> <<>>, index |-> 258,
       seed |-> <<147, 113, 174, 186, 111, 172, 142, 251>>],
      [base |-> -1, path |-> <<>>, index |-> 16909060,
       seed |-> <<74, 18, 187, 201, 161, 221, 186, 204>>],
      [base |-> -1, path |-> <<"a">>, index |-> 0,
       seed |-> <<179, 52, 54, 174, 1, 46, 22, 146>>],
      [base |-> -1, path |-> <<"a">>, index |-> 1,
       seed |-> <<34, 120, 0, 88, 249, 129, 27, 242>>],
      [base |-> -1, path |-> <<"a">>, index |-> 258,
       seed |-> <<230, 188, 226, 252, 240, 90, 119, 201>>],
      [base |-> -1, path |-> <<"a">>, index |-> 16909060,
       seed |-> <<87, 102, 79, 248, 34, 162, 253, 247>>],
      [base |-> -1, path |-> <<"o", ".", "a">>, index |-> 0,
       seed |-> <<44, 3, 16, 16, 154, 195, 3, 132>>],
      [base |-> -1, path |-> <<"o", ".", "a">>, index |-> 1,
       seed |-> <<189, 191, 69, 102, 162, 111, 254, 163>>],
      [base |-> -1, path |-> <<"o", ".", "a">>, index |-> 258,
       seed |-> <<249, 122, 99, 193, 170, 150, 162, 204>>],
      [base |-> -1, path |-> <<"o", ".", "a">>, index |-> 16909060,
       seed |-> <<220, 214, 86, 178, 120, 99, 118, 251>>],
      [base |-> -1, path |-> <<"a", "[", "0", "]">>, index |-> 0,
       seed |-> <<249, 22, 229, 138, 49, 106, 96, 194>>],
      [base |-> -1, path |-> <<"a", "[", "0", "]">>, index |-> 1,
       seed |-> <<104, 90, 175, 52, 41, 190, 101, 162>>],
      [base |-> -1, path |-> <<"a", "[", "0", "]">>, index |-> 258,
       seed |-> <<112, 145, 104, 50, 66, 71, 172, 249>>],
      [base |-> -1, path |-> <<"a", "[", "0", "]">>, index |-> 16909060,
       seed |-> <<237, 207, 169, 232, 82, 98, 251, 202>>],
      [base |-> -1, path |-> <<"n", "a", "m", "e">>, index |-> 0,
       seed |-> <<25, 1, 233, 218, 208, 238, 164, 185>>],
      [base |-> -1, path |-> <<"n", "a", "m", "e">>, index |-> 1,
       seed |-> <<136, 68, 179, 132, 200, 66, 170, 153>>],
      [base |-> -1, path |-> <<"n", "a", "m", "e">>, index |-> 258,
       seed |-> <<144, 123, 108, 130, 225, 203, 240, 240>>],
      [base |-> -1, path |-> <<"n", "a", "m", "e">>, index |-> 16909060,
       seed |-> <<13, 186, 173, 56, 242, 230, 63, 194>>] }

SeedInit ==
    /\ \E vec \in SeedVectors :
          dBase = vec.base /\ dPath = vec.path /\ dIndex = vec.index
    /\ dOut = <<>>
    /\ LLMIdle /\ ClientIdle /\ GenIdle /\ ValIdle /\ ParseIdle /\ PipeIdle

\* one more call of deriveSeed(path, recordIndex)
CallDeriveSeed ==
    /\ Len(dOut) < MaxCalls
    /\ dOut' = Append(dOut, deriveSeed(dBase, dPath, dIndex))
    /\ UNCHANGED <<dBase, dPath, dIndex, llmVars, clientVars, genVars, valVars, parseVars,
                   pipeVars>>

SeedNext == CallDeriveSeed

SpecSeed == SeedInit /\ [][SeedNext]_vars

\* C18: deriveSeed never fails and its result is baseSeed XOR (the 64-bit
\* FNV-1a hash of the path bytes followed by the 4 little-endian low bytes
\* of recordIndex, with the sign bit cleared), on every call and whatever
\* calls came before, also for the empty path and record index 0.
C18_DeriveSeedIsBaseXorHash ==
    \A vec \in SeedVectors :
        (dBase = vec.base /\ dPath = vec.path /\ dIndex = vec.index)
            => \A i \in DOMAIN dOut : dOut[i] = vec.seed

\* deriveSeed was called twice for the empty path and record index 0
C18_Witness ==
    dPath = <<>> /\ dIndex = 0 /\ dBase = 12345 /\ Len(dOut) = 2


(***************************************************************************)
(* SpecLLM: Generate's health check, then one generateRecord with the LLM  *)
(* configured, and the worker's push of the record.  A call of             *)
(* llmClient.Generate or llmClient.HealthCheck answers anything: an error  *)
(* or a text.                                                              *)
(***************************************************************************)

nameName == <<"n", "a", "m", "e">>
nameDescription == <<"d", "e", "s", "c", "r", "i", "p", "t", "i", "o", "n">>
textNull == <<"n", "u", "l", "l">>

RECURSIVE collectLLMFields(_, _)
RECURSIVE collectLLMFromProperties(_, _, _, _)
\* collectLLMFields, the loops of lines 280-285 (atRoot) and 294-300 over
\* node.Properties: one list per iteration order of the map
collectLLMFromProperties(props, left, prefix, atRoot) ==
    IF left = {} THEN {<<>>}
    ELSE UNION { { (IF atRoot /\ props[name].LLMEnhanced THEN <<name>> ELSE <<>>) \o a \o b :
                     a \in collectLLMFields(props[name],
                                            IF atRoot \/ prefix = <<>> THEN name
                                            ELSE prefix \o <<".">> \o name),
                     b \in collectLLMFromProperties(props, left \ {name}, prefix, atRoot) }
                 : name \in left }

\* Parser.collectLLMFields: the set of lists it may append to fields
collectLLMFields(node, prefix) ==
    IF prefix = <<>> /\ IsSome(node.Properties)
    THEN collectLLMFromProperties(Get(node.Properties), DOMAIN Get(node.Properties),
                                  prefix, TRUE)
    ELSE { (IF node.LLMEnhanced /\ prefix /= <<>> THEN <<prefix>> ELSE <<>>) \o a \o b :
             a \in (IF IsSome(node.Properties)
                    THEN collectLLMFromProperties(Get(node.Properties),
                                                  DOMAIN Get(node.Properties), prefix, FALSE)
                    ELSE {<<>>}),
             b \in (IF IsSome(node.Items)
                    THEN collectLLMFields(Get(node.Items), prefix \o <<"[", "]">>)
                    ELSE {<<>>}) }

\* Parser.GetLLMFields
GetLLMFields(node) == collectLLMFields(node, <<>>)

\* what a call of llmClient.Generate returns: an error, or a text
LLMTexts == { <<"x">>, <<" ", "y", " ">>, <<"dquote", "z", "dquote">>, textNull, <<" ">> }
LLMReplies == { [ok |-> FALSE, text |-> <<>>] } \cup { [ok |-> TRUE, text |-> t] : t \in LLMTexts }

\* enrichFields, lines 316-319: the surrounding quotes removed
stripQuotes(cleanValue) ==
    IF Len(cleanValue) >= 2 /\ cleanValue[1] = "dquote"
       /\ cleanValue[Len(cleanValue)] = "dquote"
    THEN SubSeq(cleanValue, 2, Len(cleanValue) - 1)
    ELSE cleanValue

\* enrichFields, lines 323-329: the cleaned reply replaces the field
setCleanValue(data, fieldPath, cleanValue) ==
    IF cleanValue /= <<>> /\ cleanValue /= textNull
    THEN MapSet(data, fieldPath, StringValue(cleanValue))
    ELSE data

\* the body of the loop of enrichFields with the failed call written into the
\* record as an empty string
enrichFieldAlways(data, fieldPath, reply) ==
    IF reply.ok THEN setCleanValue(data, fieldPath, stripQuotes(TrimSpace(reply.text)))
    ELSE MapSet(data, fieldPath, StringValue(<<>>))

\* enrichFields, the body of the loop of lines 303-330 for one field
enrichField(data, fieldPath, reply) ==
    IF reply.ok THEN setCleanValue(data, fieldPath, stripQuotes(TrimSpace(reply.text)))
    ELSE data

RECURSIVE enrichFieldsFrom(_, _, _, _)
\* enrichFields, the loop of lines 303-330 from field i on
enrichFieldsFrom(data, llmFields, replies, i) ==
    IF i > Len(llmFields) THEN data
    ELSE enrichFieldsFrom(enrichField(data, llmFields[i], replies[i]), llmFields, replies, i + 1)

\* enrichFields, lines 294-299: name and description are appended when the
\* record has them
forcedFields(data) ==
    (IF nameName \in DOMAIN data THEN <<nameName>> ELSE <<>>)
      \o (IF nameDescription \in DOMAIN data THEN <<nameDescription>> ELSE <<>>)

\* Generator.enrichFields on one list of fields: [data, err]
enrichFields(data, llmFields, replies) ==
    [data |-> enrichFieldsFrom(data, llmFields, replies, 1), err |-> FALSE]

\* Generator.enrichRecord: one call, the data returned as it came
enrichRecord(data, replies) == [data |-> data, err |-> ~replies[1].ok]

\* Generator.enrichWithLLM
enrichWithLLM(mode, data, llmFields, replies) ==
    IF mode = "fields" THEN enrichFields(data, llmFields, replies)
    ELSE IF mode = "record" THEN enrichRecord(data, replies)
    ELSE [data |-> data, err |-> FALSE]

\* generateRecord, lines 228-233 and 241-246: a clean reply replaces the
\* field and marks the record
setDirectValue(rec, field, cleanValue) ==
    IF Len(cleanValue) > 0 /\ cleanValue /= textNull
    THEN [Data |-> MapSet(rec.Data, field, StringValue(cleanValue)), LLMEnhanced |-> TRUE]
    ELSE rec

\* generateRecord, lines 225-234 and 238-247: the direct call for one field
enrichDirect(rec, field, reply) ==
    IF reply.ok THEN setDirectValue(rec, field, TrimSpace(reply.text)) ELSE rec

RECURSIVE enrichDirectFrom(_, _, _, _)
\* generateRecord, lines 222-248: the direct calls from call i on
enrichDirectFrom(rec, fields, replies, i) ==
    IF i > Len(fields) THEN rec
    ELSE enrichDirectFrom(enrichDirect(rec, fields[i], replies[i]), fields, replies, i + 1)

\* generateRecord, lines 250-257: the result of enrichWithLLM taken or not
afterEnrichWithLLM(data, enhanced) ==
    IF enhanced.err THEN [Data |-> data, LLMEnhanced |-> FALSE]
    ELSE [Data |-> enhanced.data, LLMEnhanced |-> TRUE]

\* the record path enrichRecord derives its seed from
nameRecord == <<"r", "e", "c", "o", "r", "d">>

\* the calls of llmClient.Generate one generateRecord makes, as the list of
\* the fields they are made for: one list per order GetLLMFields may return
llmCalls(mode, client, node, data) ==
    IF ~client \/ mode = "off" THEN {<<>>}
    ELSE IF mode = "field" THEN {forcedFields(data)}
    ELSE IF mode = "fields" THEN { f \o forcedFields(data) : f \in GetLLMFields(node) }
    ELSE IF mode = "record" THEN {<<nameRecord>>}
    ELSE {<<>>}

\* generateRecord, lines 219-260: [Data, LLMEnhanced] after the enrichment
enrichedRecord(mode, client, data, fields, replies) ==
    IF ~client \/ mode = "off" THEN [Data |-> data, LLMEnhanced |-> FALSE]
    ELSE IF mode = "field"
    THEN enrichDirectFrom([Data |-> data, LLMEnhanced |-> FALSE], fields, replies, 1)
    ELSE afterEnrichWithLLM(data, enrichWithLLM(mode, data, fields, replies))

\* generateRecord, lines 262-274, on the enriched record
validatedRecord(rules, enriched) ==
    [validateAndPatch(rules, enriched.Data) EXCEPT !.LLMEnhanced = enriched.LLMEnhanced]

\* generateRecord, lines 212-274, with the LLM configured
generateRecordWithLLM(rules, mode, client, data, fields, replies) ==
    validatedRecord(rules, enrichedRecord(mode, client, data, fields, replies))


\* the schema documents of the runs: a marked name, name and description with
\* a rule both numbers break, a marked field next to a nested marked field,
\* and a string no generation survives
LLMSchemas ==
    { Object((nameName :> [smallString EXCEPT !.xllm = Some(TRUE)]) @@ (nameA :> posInt),
             Some(<<nameName, nameA>>)),
      [Object((nameName :> smallString) @@ (nameDescription :> smallString)
                @@ (nameA :> posInt) @@ (nameB :> posInt),
              Some(<<nameName, nameDescription, nameA, nameB>>))
         EXCEPT !.xrules = Some(<<rawMutex>>)],
      Object((nameA :> [smallString EXCEPT !.xllm = Some(TRUE)])
               @@ (nameO :> Object((nameA :> [smallString EXCEPT !.xllm = Some(TRUE)]),
                                   Some(<<nameA>>))),
             Some(<<nameA, nameO>>)),
      Object((nameA :> [Typed("string") EXCEPT !.minLength = Some(F(30))]), Some(<<nameA>>)) }

\* config.LLM.Mode and the client after New: without a client the mode is off
LLMConfigs == { <<"off", FALSE>>, <<"field", TRUE>>, <<"fields", TRUE>>, <<"record", TRUE>> }

LLMInit ==
    /\ gRaw \in LLMSchemas
    /\ gSeed \in BaseSeeds
    /\ gIndex \in 0..MaxRecordIndex
    /\ gOut = <<>>
    /\ lRules \in GetCrossFieldRules(GetRootNode(gRaw))
    /\ \E c \in LLMConfigs : lMode = c[1] /\ lClient = c[2]
    /\ lHealth = "none" /\ lPc = "health"
    /\ lBase = None /\ lFailed = {} /\ lRec = None /\ lChan = <<>>
    /\ SeedIdle /\ ClientIdle /\ ValIdle /\ ParseIdle /\ PipeIdle

\* the fields all of whose calls failed
failedFields(fields, replies) ==
    { fields[i] : i \in { j \in DOMAIN fields : ~replies[j].ok } }
      \ { fields[i] : i \in { j \in DOMAIN fields : replies[j].ok } }

\* Generate, lines 97-104: the health check of a configured client
LLMHealthCheck ==
    /\ lPc = "health"
    /\ IF lClient
       THEN \E healthy \in BOOLEAN :
               /\ lHealth' = (IF healthy THEN "ok" ELSE "failed")
               /\ lClient' = healthy
               /\ lMode' = (IF healthy THEN lMode ELSE "off")
       ELSE UNCHANGED <<lHealth, lClient, lMode>>
    /\ lPc' = "generate"
    /\ UNCHANGED <<lRules, lBase, lFailed, lRec, lChan, seedVars, clientVars, genVars,
                   valVars, parseVars, pipeVars>>

\* generationWorker, line 195: generateRecord for the index, every call of
\* llmClient.Generate answering anything
LLMGenerateRecord ==
    /\ lPc = "generate"
    /\ \E o \in GenerateValue(gSeed, gNode, gIndex) :
          IF o.st = "ok" /\ o.val.t = "object"
          THEN \E fields \in llmCalls(lMode, lClient, gNode, o.val.v) :
                  \E replies \in [DOMAIN fields -> LLMReplies] :
                     /\ lBase' = Some(o.val.v)
                     /\ lFailed' = failedFields(fields, replies)
                     /\ lRec' = Some(generateRecordWithLLM(lRules, lMode, lClient, o.val.v,
                                                           fields, replies))
                     /\ lPc' = "send"
          ELSE /\ lPc' = (IF o.st = "err" THEN "skipped" ELSE "panic")
               /\ UNCHANGED <<lBase, lFailed, lRec>>
    /\ UNCHANGED <<lRules, lHealth, lMode, lClient, lChan, seedVars, clientVars, genVars,
                   valVars, parseVars, pipeVars>>

\* generationWorker, line 201: the record goes to resultChan
LLMSend ==
    /\ lPc = "send"
    /\ lChan' = Append(lChan, Get(lRec))
    /\ lPc' = "done"
    /\ UNCHANGED <<lRules, lHealth, lMode, lClient, lBase, lFailed, lRec, seedVars,
                   clientVars, genVars, valVars, parseVars, pipeVars>>

LLMNext == LLMHealthCheck \/ LLMGenerateRecord \/ LLMSend

SpecLLM == LLMInit /\ [][LLMNext]_vars

\* the record carries the field as GenerateValue made it (or not at all)
KeepsDeterministic(rec, base, field) ==
    IF field \in DOMAIN base
    THEN field \in DOMAIN rec.Data /\ SameValue(rec.Data[field], base[field])
    ELSE field \notin DOMAIN rec.Data

\* the record is the one generateRecord makes of the base value with the LLM off
DeterministicOnly(rec, rules, base) ==
    /\ SameData(rec.Data, validateAndPatch(rules, base).Data)
    /\ ~rec.LLMEnhanced
    /\ rec.ValidationErrors = validateAndPatch(rules, base).ValidationErrors
    /\ rec.Patched = validateAndPatch(rules, base).Patched

\* C19: a failed LLM call never drops or fails a record.  A record is lost
\* only when GenerateValue itself failed, before any LLM call.  After a failed
\* health check the client is gone, the mode is off and the record is the
\* deterministic one.  After failed Generate calls the fields none of whose
\* calls succeeded (every field, for the per-record call) keep the value
\* GenerateValue gave them, the record carries the validation errors of its
\* data, and the worker pushes exactly that record to resultChan.
C19_FailedLLMCallKeepsRecord ==
    /\ lPc \in {"panic", "skipped"} => lBase = None /\ lFailed = {}
    /\ lHealth = "failed" => ~lClient /\ lMode = "off"
    /\ lPc \in {"send", "done"} =>
          /\ IsSome(lRec) /\ IsSome(lBase)
          /\ lHealth = "failed" => DeterministicOnly(Get(lRec), lRules, Get(lBase))
          /\ \A f \in lFailed \ {nameRecord} : KeepsDeterministic(Get(lRec), Get(lBase), f)
          /\ (lMode = "record" /\ lFailed /= {})
                => DeterministicOnly(Get(lRec), lRules, Get(lBase))
          /\ Get(lRec).ValidationErrors = ValidateRecord(lRules, Get(lRec).Data)
          /\ Get(lRec).Patched = validateAndPatch(lRules, Get(lRec).Data).Patched
    /\ lPc = "done" => Len(lChan) = 1 /\ lChan[1] = Get(lRec)
    /\ lPc /= "done" => lChan = <<>>

\* in fields mode the call for one field failed and the call for another gave
\* a text; the record broke a rule and was pushed all the same
C19_Witness ==
    /\ lPc = "done" /\ lMode = "fields" /\ lFailed /= {}
    /\ Get(lRec).LLMEnhanced
    /\ ~SameData(Get(lRec).Data, Get(lBase))
    /\ Len(Get(lRec).ValidationErrors) > 0
    /\ Len(lChan) = 1


(***************************************************************************)
(* FairSpec: Generate under the Go scheduler.  Every goroutine that can    *)
(* take a step eventually takes one: the sender, each worker, the          *)
(* collector and the caller of Generate.  The caller of Generate may       *)
(* cancel ctx at any moment or never, so Cancel carries no fairness.       *)
(***************************************************************************)

\* the sender goroutine of lines 134-144
SenderStep == SenderSend \/ SenderCancelled \/ SenderClose

\* the generationWorker goroutine w at a receive, a check of ctx or a send
WorkerStep(w) ==
    /\ w <= workers
    /\ WorkerReceive \/ WorkerExit \/ WorkerCheck \/ WorkerSend
    /\ wpc'[w] /= wpc[w]

\* the generationWorker goroutine w is inside generateRecord.  The call never
\* waits for another goroutine and its step always leaves this position, so
\* weak fairness of WorkerGenerate for w is: w is not inside it for ever.
InGenerateRecord(w) == w <= workers /\ Alive /\ wpc[w] = "generate"

\* the resultCollector goroutine
CollectorStep == CollectorReceive \/ CollectorExit

\* the goroutine that called Generate, lines 147-173
GenerateStep == GenerateCloseResults \/ GenerateWrite \/ GenerateFinish

\* the runs of Spec for one base seed: no goroutine's position depends on it
FairInit == Init /\ cfgSeed = 12345

FairSpec ==
    /\ FairInit /\ [][Next]_vars
    /\ WF_vars(SenderStep)
    /\ \A w \in 1..MaxWorkers : WF_vars(WorkerStep(w)) /\ []<>(~InGenerateRecord(w))
    /\ WF_vars(CollectorStep)
    /\ WF_vars(GenerateStep)

\* the sender, every worker and the collector have returned
GoroutinesFinished ==
    /\ senderDone
    /\ \A w \in 1..workers : wpc[w] = "done"
    /\ collectorDone

\* the goroutines Generate waits for have returned
WaitedGoroutinesFinished ==
    /\ \A w \in 1..workers : wpc[w] = "done"
    /\ collectorDone

\* C20: Generate always terminates.  Whatever the record count, the number of
\* workers and the moment ctx is cancelled (or never), every run in which each
\* goroutine keeps being scheduled reaches the return of Generate with all
\* workers and the collector returned, and from some moment on the index
\* sender has returned too, so no goroutine stays blocked on recordChan or
\* resultChan.  The only other end of a run is the panic of a generation,
\* which ends the process.
C20_GenerateTerminates ==
    /\ <>[](gpc = "panic" \/ (gpc = "done" /\ GoroutinesFinished))
    /\ [](gpc = "done" => WaitedGoroutinesFinished)

\* Generate returned after a cancellation that cut the run short: indices
\* were left unsent and every goroutine has returned
C20_Witness ==
    /\ gpc = "done" /\ cancelled /\ sent < count
    /\ GoroutinesFinished
    /\ Len(records) < count


(***************************************************************************)
(* Claims on the records of a run (checked under Spec)                     *)
(***************************************************************************)

\* the one-to-one assignments of the positions 1..n to the indices 0..n-1
IndexOrders(n) ==
    { p \in [1..n -> 0..(n - 1)] : \A j, k \in 1..n : p[j] = p[k] => j = k }

\* the list holds, in some order, the record of every index 0..n-1 once
OneRecordPerIndex(list, n) ==
    /\ Len(list) = n
    /\ \E p \in IndexOrders(n) : \A k \in 1..n : SameData(list[k], RecordDataOf(p[k]))

\* C21: in a run that is not cancelled and in which no generation fails, the
\* collector has received, when it returns, exactly one record for each index
\* 0..count-1, none lost and none duplicated, and Generate hands exactly
\* these count records to the writer, for every number of workers and every
\* interleaving.
C21_OneRecordPerIndex ==
    /\ Len(records) <= count
    /\ (collectorDone /\ ~cancelled /\ Reproducible) =>
          /\ OneRecordPerIndex(records, count)
          /\ IsSome(written) => OneRecordPerIndex(Get(written), count)

\* two workers; the record of index 1 reached the writer before the record of
\* index 0 and the two differ
C21_Witness ==
    /\ ~cancelled /\ Reproducible /\ workers = 2 /\ count = 2
    /\ IsSome(written) /\ Len(Get(written)) = 2
    /\ SameData(Get(written)[1], RecordDataOf(1))
    /\ ~SameData(Get(written)[1], RecordDataOf(0))


(***************************************************************************)
(* Claims on cancellation (checked under FairSpec)                         *)
(***************************************************************************)

\* what a step may do to worker w: after a cancellation the check of ctx
\* ends the worker; a worker inside generateRecord is not ended there; a
\* worker that leaves the send has put its record on resultChan
CancelledBetweenRecords(w) ==
    /\ (cancelled /\ wpc[w] = "check") => wpc'[w] \in {"check", "done"}
    /\ wpc[w] = "generate" => wpc'[w] \in {"generate", "send", "receive"}
    /\ (wpc[w] = "send" /\ wpc'[w] /= "send")
          => (wpc'[w] = "receive" /\ resultChan' = Append(resultChan, Get(wRec[w])))

\* the writer got every record that was generated: the collected list, with
\* no record left on resultChan or in the hands of a worker
WrittenAllCollected ==
    IsSome(written) =>
        /\ Get(written) = records
        /\ resultChan = <<>>
        /\ \A w \in 1..workers : wpc[w] = "done" /\ wRec[w] = None

\* C22: cancellation is honoured between records, not inside one.  A worker
\* that took an index when ctx was already cancelled ends at its check of ctx
\* and never generates the index.  A worker that was inside generateRecord or
\* at its send when ctx was cancelled is not stopped there: it leaves the
\* send only by putting its record on resultChan.  Cancelled or not, Generate
\* comes to hand the collected records to the writer (unless a generation
\* panicked), and by then every worker has returned and every record that
\* was generated is in the list.
C22_CancellationBetweenRecords ==
    /\ [][\A w \in 1..workers : CancelledBetweenRecords(w)]_vars
    /\ [](WrittenAllCollected)
    /\ <>(IsSome(written) \/ gpc = "panic")

\* one worker, two indices sent: the first record was written; the second
\* index was taken from recordChan after the cancellation and not generated
C22_Witness ==
    /\ gpc = "done" /\ cancelled /\ workers = 1 /\ sent = 2
    /\ recordChan = <<>> /\ wIdx[1] = 1
    /\ Len(Get(written)) = 1


(***************************************************************************)
(* SpecNames: the validation step of generateRecord on rule lists whose    *)
(* rules may share a name                                                  *)
(***************************************************************************)

nameY == <<"y">>

\* the names a schema author gives the rules of a list
RuleNames == {nameX, nameY}

\* rules of the pool that declare a patch applyPatch accepts
PatchingRules ==
    { r \in RulePool : IsSome(r.Patch) /\ ~Rejected(Get(r.Patch)) }

\* two different rules, each under one of the names
NamedRuleLists ==
    { << [r1 EXCEPT !.Name = n1], [r2 EXCEPT !.Name = n2] >> :
        r1 \in PatchingRules, r2 \in PatchingRules, n1 \in RuleNames, n2 \in RuleNames }

NamesInit ==
    /\ vRules \in { rs \in NamedRuleLists : rs[1].Rule /= rs[2].Rule
                                             \/ rs[1].Fields /= rs[2].Fields }
    /\ vData \in RecordPool
    /\ vRec = None /\ vPc = "idle" /\ vAfter = None
    /\ GenIdle /\ ParseIdle /\ PipeIdle /\ AuxIdle

SpecNames == NamesInit /\ [][ValNext]_vars

RECURSIVE PatchViolatedFrom(_, _, _, _)
\* the patches of the rules that declare one and fail on data, applied once
\* each in list order to patched, from position i on
PatchViolatedFrom(rules, patched, data, i) ==
    IF i > Len(rules) THEN patched
    ELSE IF IsSome(rules[i].Patch) /\ IsSome(validateCrossFieldRule(data, rules[i]))
    THEN PatchViolatedFrom(rules, applyPatch(patched, Get(rules[i].Patch)).data, data, i + 1)
    ELSE PatchViolatedFrom(rules, patched, data, i + 1)

\* C23: PatchRecord applies the patch of a rule if and only if the rule
\* declares a patch and was itself reported violated: whatever the names of
\* the rules, the record generateRecord returns holds the data with the
\* patches of exactly the violated rules applied, once each, in list order.
C23_PatchIffDeclaredAndViolated ==
    vPc /= "idle" =>
        SameData(Get(vRec).Data, PatchViolatedFrom(vRules, vData, vData, 1))


(***************************************************************************)
(* More claims on the validation step (checked under SpecVal)              *)
(***************************************************************************)

\* no rule that fails on the record as generated declares a patch
NoFailingRulePatches == \A i \in Failing : ~IsSome(vRules[i].Patch)

\* C24: generateRecord validates a record once, before patching, and never
\* again.  The record it returns carries the messages ValidateRecord gave for
\* the data as generated, also when the patched data would validate
\* otherwise.  A record with no message is not marked patched and keeps its
\* data.  A record with at least one message for which PatchRecord returned
\* no error is marked patched and holds the data PatchRecord returned; when no
\* violated rule declares a patch that is the unchanged data, still marked
\* patched.
C24_ValidatedOnceBeforePatch ==
    vPc /= "idle" =>
        /\ Get(vRec).ValidationErrors = ValidateRecord(vRules, vData)
        /\ Len(Get(vRec).ValidationErrors) = 0
              => (~Get(vRec).Patched /\ SameData(Get(vRec).Data, vData))
        /\ (Len(Get(vRec).ValidationErrors) > 0 /\ ~PatchFails)
              => /\ Get(vRec).Patched
                 /\ SameData(Get(vRec).Data, PatchViolatedFrom(vRules, vData, vData, 1))
        /\ (Len(Get(vRec).ValidationErrors) > 0 /\ NoFailingRulePatches)
              => (Get(vRec).Patched /\ SameData(Get(vRec).Data, vData))

\* a record broke a rule that declares no patch: it is marked patched with
\* its data unchanged, and a second validation repeats the stored messages
C24_Witness ==
    /\ vPc = "revalidated" /\ Failing /= {} /\ NoFailingRulePatches
    /\ Get(vRec).Patched /\ SameData(Get(vRec).Data, vData)
    /\ Get(vAfter) = Get(vRec).ValidationErrors


(***************************************************************************)
(* SpecDate: one date_ordering rule evaluated on one record                *)
(***************************************************************************)

nameU == <<"u">>

\* longest field list of the rule
MaxDateFields == 3

DateFieldNames == {nameS, nameT, nameU}

RECURSIVE FieldListsOfLen(_)
FieldListsOfLen(n) ==
    IF n = 0 THEN {<<>>}
    ELSE { Append(fs, f) : fs \in FieldListsOfLen(n - 1), f \in DateFieldNames }

\* what a field of the record holds: the empty string, two strings whose
\* order as text is not their order as numbers, a number, and null
DateValues ==
    << StringValue(<<>>), StringValue(<<"1", "0">>), StringValue(<<"9">>),
       Int64Value(5), NilValue >>

DateInit ==
    /\ \E n \in 0..MaxDateFields : \E fs \in FieldListsOfLen(n) :
          vRules = << Rule(<<"d", "a", "t", "e">>, "date_ordering", fs) >>
    /\ \E choice \in [DateFieldNames -> 0..Len(DateValues)] :
          vData = [f \in { g \in DateFieldNames : choice[g] > 0 } |-> DateValues[choice[f]]]
    /\ vRec = None /\ vPc = "idle" /\ vAfter = None
    /\ GenIdle /\ ParseIdle /\ PipeIdle /\ AuxIdle

SpecDate == DateInit /\ [][ValNext]_vars

\* a is greater than b in the byte-wise lexicographic order
LexGreater(a, b) ==
    \E k \in 1..Len(a) :
        /\ k - 1 <= Len(b)
        /\ \A j \in 1..(k - 1) : a[j] = b[j]
        /\ \/ k > Len(b)
           \/ Ord(a[k]) > Ord(b[k])

\* the string the rule compares for its i-th field: absent is the empty string
DateText(i) ==
    IF vRules[1].Fields[i] \in DOMAIN vData THEN vData[vRules[1].Fields[i]].v ELSE <<>>

\* a field of the rule is present and holds no string
PresentNonString ==
    \E i \in 1..Len(vRules[1].Fields) :
        /\ vRules[1].Fields[i] \in DOMAIN vData
        /\ vData[vRules[1].Fields[i]].t /= "string"

\* some field's string is greater than the string of the next field
OutOfOrder ==
    \E i \in 2..Len(vRules[1].Fields) : LexGreater(DateText(i - 1), DateText(i))

\* the messages of the validation are exactly one message holding the text
ReportsOnly(text) ==
    /\ Len(Get(vRec).ValidationErrors) = 1
    /\ Contains(Get(vRec).ValidationErrors[1], text)

\* C25: validateDateOrdering reports an error for fewer than 2 fields and for
\* a present value that is not a string; otherwise it reports a violation
\* exactly when for some i >= 1 the string of fields[i-1] is lexicographically
\* greater than the string of fields[i], an absent field counting as the
\* empty string, and nothing when there is no such i.
C25_DateOrderingViolationIffGreater ==
    vPc /= "idle" =>
        /\ Len(vRules[1].Fields) < 2 => ReportsOnly(txtDateArity)
        /\ (Len(vRules[1].Fields) >= 2 /\ PresentNonString) => ReportsOnly(txtNotStringDate)
        /\ (Len(vRules[1].Fields) >= 2 /\ ~PresentNonString /\ OutOfOrder)
              => ReportsOnly(txtDateViolation)
        /\ (Len(vRules[1].Fields) >= 2 /\ ~PresentNonString /\ ~OutOfOrder)
              => Get(vRec).ValidationErrors = <<>>

\* the later field is absent after a non-empty earlier one: a violation; and
\* the record holds "9" before "10", which is out of order as text
C25_Witness ==
    /\ vPc = "done" /\ vRules[1].Fields = <<nameS, nameT, nameU>>
    /\ nameS \in DOMAIN vData /\ vData[nameS].t = "string" /\ vData[nameS].v = <<"9">>
    /\ nameT \notin DOMAIN vData
    /\ nameU \in DOMAIN vData /\ vData[nameU].t = "string"
    /\ ReportsOnly(txtDateViolation)


(***************************************************************************)
(* SpecArray: GenerateValue called on one node for the record indices      *)
(* 0, 1, 2, ... in turn                                                    *)
(***************************************************************************)

\* the record indices 0..MaxArrayRecords-1 are generated
MaxArrayRecords == 4

\* the base seeds of the runs: 1..MaxArraySeed and the seeds of the other runs
MaxArraySeed == 6

\* scalar item schemas without a date format
ScalarItems ==
    { posInt, smallString, Typed("boolean"),
      [Typed("number") EXCEPT !.minimum = Some(F(0)), !.maximum = Some(F(9))] }

ArrayOf(item) ==
    [Typed("array") EXCEPT !.items = Some(item), !.minItems = Some(F(1)),
                           !.maxItems = Some(F(3))]

\* an array at the root, and an array as a required property of the root
ScalarArraySchemas ==
    { ArrayOf(item) : item \in ScalarItems }
      \cup { Object((nameQ :> ArrayOf(item)), Some(<<nameQ>>)) : item \in ScalarItems }

ArrayInit ==
    /\ gRaw \in ScalarArraySchemas
    /\ gSeed \in BaseSeeds \cup (1..MaxArraySeed)
    /\ gIndex = 0
    /\ gOut = <<>>
    /\ ValIdle /\ ParseIdle /\ PipeIdle /\ AuxIdle

\* GenerateValue(node, recordIndex) for the next record index
CallGenerateValueForNextIndex ==
    /\ gIndex < MaxArrayRecords
    /\ \E o \in GenerateValue(gSeed, gNode, gIndex) : gOut' = Append(gOut, o)
    /\ gIndex' = gIndex + 1
    /\ UNCHANGED <<gRaw, gSeed, valVars, parseVars, pipeVars, auxVars>>

ArrayNext == CallGenerateValueForNextIndex

SpecArray == ArrayInit /\ [][ArrayNext]_vars

\* the array of the k-th outcome: the value itself, or the property q of it
ArrayOfOutcome(k) ==
    IF gOut[k].val.t = "array" THEN gOut[k].val.v ELSE gOut[k].val.v[nameQ].v

\* C26: for two record indices generated with the same base seed, the
\* elements at a position that both arrays have are the same: only the
\* length of the array of a node varies with the record index (scalar items
\* without date formats).
C26_ArrayItemsSameAcrossRecords ==
    \A j, k \in DOMAIN gOut :
        /\ gOut[j].st = "ok"
        /\ \A i \in 1..Len(ArrayOfOutcome(j)) :
              i <= Len(ArrayOfOutcome(k))
                  => SameValue(ArrayOfOutcome(j)[i], ArrayOfOutcome(k)[i])

\* two records whose arrays of strings differ in length and agree on the two
\* elements both have, the two elements being different strings
C26_Witness ==
    \E j, k \in DOMAIN gOut :
        /\ Len(ArrayOfOutcome(j)) = 2 /\ Len(ArrayOfOutcome(k)) = 3
        /\ ArrayOfOutcome(j)[1].t = "string"
        /\ ArrayOfOutcome(j)[1].v /= ArrayOfOutcome(j)[2].v
        /\ ArrayOfOutcome(k)[2].v = ArrayOfOutcome(j)[2].v


(***************************************************************************)
(* SpecFallback: GenerateValue on a string node whose pattern is not in    *)
(* the exact-match table                                                   *)
(***************************************************************************)

classDigits == <<"[", "0", "-", "9", "]">>
classUpper == <<"[", "A", "-", "Z", "]">>
classLetters == <<"[", "a", "-", "z", "A", "-", "Z", "]">>

\* patterns outside the table: digits with and without a length, upper-case
\* letters, letters, both classes, and the unknown pattern of
\* TestPatternGeneration_EdgeCases
FallbackPatterns ==
    { <<"^">> \o classDigits \o <<"{", "3", "}", "$">>,
      <<"^">> \o classDigits \o <<"+", "$">>,
      <<"^">> \o classUpper \o <<"+", "$">>,
      <<"^">> \o classLetters \o <<"+", "$">>,
      <<"^">> \o classUpper \o classDigits \o <<"$">>,
      <<"^", "[", "X", "-", "Y", "]", "{", "5", "}", "[", "#", "]", "{", "2", "}", "$">> }

FallbackInit ==
    /\ \E pat \in FallbackPatterns : gRaw = [Typed("string") EXCEPT !.pattern = Some(pat)]
    /\ gSeed \in PatternSeeds
    /\ gIndex = 0
    /\ gOut = <<>>
    /\ ValIdle /\ ParseIdle /\ PipeIdle /\ AuxIdle

SpecFallback == FallbackInit /\ [][GenNext]_vars

IsLetterChar(c) == (Ord(c) >= 65 /\ Ord(c) <= 90) \/ (Ord(c) >= 97 /\ Ord(c) <= 122)

AllLetters(s) == \A i \in DOMAIN s : IsLetterChar(s[i])
AllDigits(s) == \A i \in DOMAIN s : IsDigit(s[i])
AllAlphanumeric(s) == \A i \in DOMAIN s : IsLetterChar(s[i]) \/ IsDigit(s[i])

\* the N of the explicit {N} of the pattern, or 6 when it has none
ExplicitLength(pattern) ==
    IF \E i, j \in DOMAIN pattern :
          /\ i + 1 < j /\ pattern[i] = "{" /\ pattern[j] = "}"
          /\ \A k \in (i + 1)..(j - 1) : IsDigit(pattern[k])
    THEN LET i == CHOOSE a \in DOMAIN pattern :
                     /\ pattern[a] = "{"
                     /\ \E j \in DOMAIN pattern :
                           /\ a + 1 < j /\ pattern[j] = "}"
                           /\ \A k \in (a + 1)..(j - 1) : IsDigit(pattern[k])
                     /\ \A b \in 1..(a - 1) : pattern[b] /= "{"
             j == CHOOSE b \in DOMAIN pattern :
                     b > i /\ pattern[b] = "}" /\ \A k \in (i + 1)..(b - 1) : IsDigit(pattern[k])
         IN DigitsValue(SubSeq(pattern, i + 1, j - 1), 0)
    ELSE 6

\* the shape the first applicable case gives the string returned for pattern
FallbackShape(pattern, s) ==
    IF Contains(pattern, classDigits) /\ Contains(pattern, classUpper)
    THEN Len(s) = 8 /\ AllAlphanumeric(s)
    ELSE IF Contains(pattern, classDigits)
    THEN Len(s) = ExplicitLength(pattern) /\ AllDigits(s)
    ELSE IF Contains(pattern, classLetters) \/ Contains(pattern, classUpper)
    THEN Len(s) = 8 /\ AllLetters(s)
    ELSE Len(s) = 10 /\ AllAlphanumeric(s)

\* C27: for a pattern that is not in the exact-match table generateFromPattern
\* returns without failing, by the first case that applies: 8 alphanumeric
\* characters for a pattern with both [0-9] and [A-Z]; else, with [0-9], a
\* zero-padded decimal string of exactly N characters, N the explicit {N} of
\* the pattern or 6; else, with a letter class, exactly 8 letters and no other
\* character; else 10 alphanumeric characters.
C27_FallbackByFirstCase ==
    gNode.Pattern \notin TablePatterns =>
        \A i \in DOMAIN gOut :
            /\ gOut[i].st = "ok" /\ gOut[i].val.t = "string"
            /\ FallbackShape(gNode.Pattern, gOut[i].val.v)


(***************************************************************************)
(* The manifest of Generate                                                *)
(***************************************************************************)

\* the record generateRecord gives for an index (one outcome when Reproducible)
GeneratedRecordOf(i) ==
    Get((CHOOSE r \in generateRecord(cfgSeed, rootNode, pipeRules, i) : TRUE).rec)

\* the number of indexes of the run whose record satisfies Marked
CountOfRecords(Marked(_)) ==
    Cardinality({ i \in 0..(count - 1) : Marked(GeneratedRecordOf(i)) })

IsLLMEnhanced(rec) == rec.LLMEnhanced
HasValidationErrors(rec) == Len(rec.ValidationErrors) > 0
IsPatched(rec) == rec.Patched

\* the three counters of the manifest count every collected record once (a run
\* that was not cancelled collects the record of every index once)
ManifestCountersMatch ==
    (IsSome(manifest) /\ ~cancelled /\ Reproducible) =>
        /\ Get(manifest).llm_calls = CountOfRecords(IsLLMEnhanced)
        /\ Get(manifest).validation_errors = CountOfRecords(HasValidationErrors)
        /\ Get(manifest).patched_records = CountOfRecords(IsPatched)

\* C28: the manifest written by Generate reports the final values of the run:
\* record_count is the number of records written to the dataset, and
\* llm_calls, validation_errors and patched_records are the numbers of
\* collected records that are LLM-enhanced, have a validation error, and are
\* patched, each collected record counted once.
C28_ManifestReportsFinalValues ==
    IsSome(manifest) =>
        /\ Get(manifest).record_count = Len(Get(written))
        /\ ManifestCountersMatch


(***************************************************************************)
(* SpecClient: concurrent callers of OllamaClient.generateWithRetry that   *)
(* share the connection pool of the client                                 *)
(***************************************************************************)

MaxRetryLimit == 3
MaxPoolSize == 1
MaxCallers == 2

Callers == 1..MaxCallers

\* NewOllamaClient, lines 91-93: the default of config.MaxConns
DefaultMaxConns == 4
poolMaxConns(maxConns) == IF maxConns <= 0 THEN DefaultMaxConns ELSE maxConns

\* NewOllamaClient, lines 106-116: the semaphore is a channel of capacity
\* MaxConns that is filled with MaxConns tokens
ClientInit ==
    /\ oMaxRetries \in (0 - 1)..MaxRetryLimit
    /\ \E maxConns \in 0..MaxPoolSize : oMaxConns = poolMaxConns(maxConns)
    /\ oSem = oMaxConns
    /\ oPc = [c \in Callers |-> "start"]
    /\ oAttempt = [c \in Callers |-> 0]
    /\ oCtx = [c \in Callers |-> FALSE]
    /\ oCalls = [c \in Callers |-> 0]
    /\ oWaits = [c \in Callers |-> <<>>]
    /\ oLast = [c \in Callers |-> "none"]
    /\ oResult = [c \in Callers |-> "none"]
    /\ SeedIdle /\ LLMIdle /\ GenIdle /\ ValIdle /\ ParseIdle /\ PipeIdle

notClientVars == <<seedVars, llmVars, genVars, valVars, parseVars, pipeVars>>

\* generateWithRetry, line 199: the loop condition, including MaxRetries itself
moreAttemptsInclusive(attempt, maxRetries) == attempt <= maxRetries

\* generateWithRetry, line 199: the loop condition
moreAttempts(attempt, maxRetries) == attempt < maxRetries

\* generateWithRetry, line 202: the backoff before attempt, in seconds
backoff(attempt) == attempt * attempt

\* how a request that holds a slot can end: a response, a status other than
\* 200, a body that does not decode, a failure of client.Do
RequestOutcomes == {"ok", "http", "decode", "failed"}

\* doGenerate, line 230, with the slot kept after a request that failed
slotReturnedOnSuccess(outcome) == outcome = "ok"

\* doGenerate, line 230: the deferred send runs on every return
slotReturned(outcome) == TRUE

\* generateWithRetry returns res to caller c
returnsTo(c, res, pcs) ==
    /\ oPc' = [pcs EXCEPT ![c] = "returned"]
    /\ oResult' = [oResult EXCEPT ![c] = res]

\* doGenerate, lines 228-233, for a caller whose context is done on entry or
\* while it has no slot: ctx.Err() comes back, generateWithRetry keeps it as
\* lastErr, sees ctx.Err() /= nil, leaves the loop and returns the error
doGenerateCancelled(c, how) ==
    /\ oLast' = [oLast EXCEPT ![c] = how]
    /\ returnsTo(c, "error", oPc)
    /\ UNCHANGED oSem

\* doGenerate is called, lines 228-233: the select takes a token when one is
\* buffered, the ctx case when the context is done (either when both are
\* ready), and blocks otherwise
doGenerateSelect(c) ==
    /\ oCalls' = [oCalls EXCEPT ![c] = @ + 1]
    /\ \/ /\ oSem > 0
          /\ oSem' = oSem - 1
          /\ oPc' = [oPc EXCEPT ![c] = "request"]
          /\ UNCHANGED <<oLast, oResult>>
       \/ /\ oCtx[c]
          /\ doGenerateCancelled(c, "ctx")
       \/ /\ oSem = 0 /\ ~oCtx[c]
          /\ oPc' = [oPc EXCEPT ![c] = "waiting"]
          /\ UNCHANGED <<oSem, oLast, oResult>>

\* generateWithRetry is called, lines 196-199 and 212: the first attempt is not
\* preceded by a wait; with MaxRetries <= 0 the loop is not entered (line 223)
GenerateWithRetry(c) ==
    /\ oPc[c] = "start"
    /\ IF moreAttempts(0, oMaxRetries)
       THEN doGenerateSelect(c)
       ELSE returnsTo(c, "error", oPc) /\ UNCHANGED <<oSem, oCalls, oLast>>
    /\ UNCHANGED <<oMaxRetries, oMaxConns, oAttempt, oCtx, oWaits, notClientVars>>

\* generateWithRetry, lines 203-207 and 210: time.After(backoff) fires before
\* the context is done, and doGenerate is called
BackoffElapsed(c) ==
    /\ oPc[c] = "backoff" /\ ~oCtx[c]
    /\ oWaits' = [oWaits EXCEPT ![c] = Append(@, backoff(oAttempt[c]))]
    /\ doGenerateSelect(c)
    /\ UNCHANGED <<oMaxRetries, oMaxConns, oAttempt, oCtx, notClientVars>>

\* the deferred send of doGenerate, line 230: the token goes to a caller
\* blocked in the select when there is one, to the buffer otherwise; pcs is oPc
\* with the new position of the sender
releaseSlot(pcs) ==
    IF \E w \in Callers : oPc[w] = "waiting"
    THEN /\ \E w \in Callers :
               oPc[w] = "waiting" /\ oPc' = [pcs EXCEPT ![w] = "request"]
         /\ UNCHANGED oSem
    ELSE oPc' = pcs /\ oSem' = oSem + 1

\* generateWithRetry, lines 211-221 and 199-207, after doGenerate failed: stop
\* when the context is done or the attempts are used up, else enter the backoff
afterFailure(c) ==
    IF oCtx[c] \/ ~moreAttempts(oAttempt[c] + 1, oMaxRetries)
    THEN [pc |-> "returned", res |-> "error", attempt |-> oAttempt[c]]
    ELSE [pc |-> "backoff", res |-> "none", attempt |-> oAttempt[c] + 1]

\* doGenerate, lines 236-283, ends for a caller that holds a slot, and
\* generateWithRetry goes on (lines 211-223); a response needs a context that
\* is not done
RequestEnds(c, outcome) ==
    /\ oPc[c] = "request"
    /\ outcome = "ok" => ~oCtx[c]
    /\ oLast' = [oLast EXCEPT ![c] = outcome]
    /\ LET after == IF outcome = "ok"
                    THEN [pc |-> "returned", res |-> "response", attempt |-> oAttempt[c]]
                    ELSE afterFailure(c)
       IN /\ oResult' = [oResult EXCEPT ![c] = after.res]
          /\ oAttempt' = [oAttempt EXCEPT ![c] = after.attempt]
          /\ IF slotReturned(outcome)
             THEN releaseSlot([oPc EXCEPT ![c] = after.pc])
             ELSE oPc' = [oPc EXCEPT ![c] = after.pc] /\ UNCHANGED oSem
    /\ UNCHANGED <<oMaxRetries, oMaxConns, oCtx, oCalls, oWaits, notClientVars>>

\* the context of caller c is cancelled; a caller blocked in the select of the
\* backoff (line 204) or of doGenerate (line 231) takes the ctx case
CancelCaller(c) ==
    /\ oPc[c] /= "returned" /\ ~oCtx[c]
    /\ oCtx' = [oCtx EXCEPT ![c] = TRUE]
    /\ IF oPc[c] = "waiting" THEN doGenerateCancelled(c, "stopped waiting")
       ELSE IF oPc[c] = "backoff"
       THEN returnsTo(c, "error", oPc) /\ UNCHANGED <<oSem, oLast>>
       ELSE UNCHANGED <<oPc, oResult, oSem, oLast>>
    /\ UNCHANGED <<oMaxRetries, oMaxConns, oAttempt, oCalls, oWaits, notClientVars>>

ClientNext ==
    \E c \in Callers :
        \/ GenerateWithRetry(c)
        \/ BackoffElapsed(c)
        \/ \E outcome \in RequestOutcomes : RequestEnds(c, outcome)
        \/ CancelCaller(c)

SpecClient == ClientInit /\ [][ClientNext]_vars


\* the most attempts generateWithRetry may make
AttemptLimit == IF oMaxRetries > 0 THEN oMaxRetries ELSE 0

\* no wait before the first attempt, attempt * attempt seconds before attempt
\* number attempt >= 1
WaitedSquares(c) ==
    /\ Len(oWaits[c]) = (IF oCalls[c] = 0 THEN 0 ELSE oCalls[c] - 1)
    /\ \A attempt \in 1..Len(oWaits[c]) : oWaits[c][attempt] = attempt * attempt

\* what generateWithRetry returns: the response of a successful attempt, which
\* is the last one made; an error otherwise, also when no attempt was made
ReturnsFirstSuccess(c) ==
    /\ oLast[c] = "ok" => (oPc[c] = "returned" /\ oResult[c] = "response")
    /\ oPc[c] = "returned" =>
          /\ oResult[c] \in {"response", "error"}
          /\ oResult[c] = "response" <=> oLast[c] = "ok"
          /\ oMaxRetries <= 0 => (oResult[c] = "error" /\ oCalls[c] = 0)

\* a step of caller c makes no attempt after generateWithRetry returned, and
\* no attempt but the first with the context cancelled
NoFurtherAttempt(c) ==
    oCalls'[c] /= oCalls[c] =>
        /\ oCalls'[c] = oCalls[c] + 1
        /\ oPc[c] /= "returned" /\ oResult[c] = "none"
        /\ oCalls[c] >= 1 => ~oCtx[c]

InFlight == Cardinality({ c \in Callers : oPc[c] = "request" })

\* a step in which a request ends gives its slot back: to the buffer or to a
\* caller that was waiting for one
SlotReturned(c) ==
    (oPc[c] = "request" /\ oPc'[c] /= "request") =>
        \/ oSem' = oSem + 1
        \/ oSem' = oSem /\ \E w \in Callers : oPc[w] = "waiting" /\ oPc'[w] = "request"

\* a caller whose context is cancelled while it waits for a slot stops waiting
\* and takes no slot
StopsWaiting(c) ==
    (oPc[c] = "waiting" /\ ~oCtx[c] /\ oCtx'[c]) =>
        /\ oPc'[c] = "returned" /\ oResult'[c] = "error"
        /\ oSem' = oSem
        /\ \A d \in Callers : (oPc'[d] = "request") <=> (oPc[d] = "request")

\* C30: at most MaxConns requests of doGenerate are in flight across all
\* callers and every acquired slot is returned when its request ends (success,
\* HTTP error, decode error, cancellation): free slots + requests in flight =
\* MaxConns in every reachable state; a caller waiting for a slot stops waiting
\* when its context is cancelled, without taking a slot.
C30_PoolBoundsRequestsInFlight ==
    /\ [](oPc /= <<>> =>
             /\ InFlight <= oMaxConns
             /\ oSem >= 0
             /\ oSem + InFlight = oMaxConns)
    /\ [][\A c \in Callers : SlotReturned(c) /\ StopsWaiting(c)]_vars

\* every slot is taken, one caller gave up waiting when its context was
\* cancelled, and another caller has had a slot back and taken one again
C30_Witness ==
    /\ oSem = 0 /\ InFlight = oMaxConns
    /\ \E c, d \in Callers :
          /\ oPc[c] = "request" /\ oCalls[c] >= 2
          /\ oPc[d] = "returned" /\ oLast[d] = "stopped waiting"

=============================================================================
